---- MODULE Spec2Model ----
(***************************************************************************)
(* Authorization core of EmojiHub: the token codec and issuer              *)
(* (TokenService), the authenticator (AuthService) and the user store it   *)
(* consults (UserService / UserRepository), the permission store           *)
(* (PermissionService / PermissionRepository) and the permission guard of  *)
(* the routes (authenticated_user, PermissionChecker).                     *)
(*                                                                         *)
(* Time is the unix clock in whole seconds, as int(datetime.timestamp())   *)
(* and PyJWT see it.  A signature is a symbolic term over the signing      *)
(* input, the key and the algorithm: two signatures are equal exactly when *)
(* all four agree, so a verification can fail.                             *)
(***************************************************************************)
EXTENDS Integers, FiniteSets, Sequences, Bags, TLC

VARIABLES
    now,      \* the clock, in whole seconds (datetime.now().timestamp())
    users,    \* table users: id -> [name, surname, login, password digest]
    nextId,   \* the next value of the autoincrement primary key of users
    held,     \* the token DTO fields the client has been given and keeps
    config,   \* config_token (ACCESS_TOKEN_LIFETIME, REFRESH_TOKEN_LIFETIME) and the zone
    last,     \* the request in flight and its response
    permissions,       \* table permissions: the bag of the names of its rows
    user_permissions,  \* table user_permissions: rows <<user id, permission name>>
    emojis,            \* table emojis: rows [character, created_by_user_id]
    sessions,  \* the database sessions of the requests running concurrently
    history    \* what the client has done so far with the tokens it holds

vars == <<now, users, nextId, held, config, last, permissions, user_permissions, emojis, sessions, history>>

(* the tables the authenticator never writes *)
stores == <<permissions, user_permissions, emojis>>

----------------------------------------------------------------------------
(* Bounds of the model *)

MaxTime == 2
MaxUsers == 2
MaxLifetime == 2
MaxShift == 2

(* The values ACCESS_TOKEN_LIFETIME / REFRESH_TOKEN_LIFETIME can be given  *)
(* through the environment: plain ints, nothing validates them.            *)
Lifetimes == 0..MaxLifetime

(* Registration requests the model draws from: bodies RegistrationDTO      *)
(* accepts (name and surname of at most 20 characters, a password of at    *)
(* least 8).                                                               *)
Registrations ==
    { [name |-> "ann", surname |-> "archer", login |-> "ann@hub", password |-> "password-ann"],
      [name |-> "bob", surname |-> "baker", login |-> "bob@hub", password |-> "password-bob"] }

Names == {r.name : r \in Registrations}
Logins == {r.login : r \in Registrations}
Passwords == {r.password : r \in Registrations}

----------------------------------------------------------------------------
(* Configuration read by TokenService.__init__ *)

algorithm == "HS256"
secret_key == "server-secret"

(* What a client that does not hold secret_key can put in a header / sign with *)
OtherAlgorithms == {"none", "HS512"}
attacker_key == "attacker-secret"

The(S) == CHOOSE x \in S : TRUE

----------------------------------------------------------------------------
(* Credential verifier (argon2, salted with the secret key) *)

hash_password(password) == <<"argon2", secret_key, password>>

verify(password_hash, password) == password_hash = hash_password(password)

----------------------------------------------------------------------------
(* User store *)

_get_dto(pk, U) ==
    [id |-> pk, name |-> U[pk].name, surname |-> U[pk].surname,
     login |-> U[pk].login, password |-> U[pk].password]

(* UserService.create hashes the password of the entity, and              *)
(* UserRepository.create makes the row of its fields.                     *)
UserModel(dto) ==
    [name |-> dto.name, surname |-> dto.surname, login |-> dto.login,
     password |-> hash_password(dto.password)]

(* UserRepository.get_user(FindUserDTO(login=...)): the matching DTOs;     *)
(* login is unique, so none or one.                                        *)
get_user(login, U) == {_get_dto(pk, U) : pk \in {k \in DOMAIN U : U[k].login = login}}

(* UserRepository.get(pk): raises UserNotFound when the row is absent. *)
UserRepository_get(pk, U) ==
    IF pk \in DOMAIN U
        THEN [error |-> "", users |-> {_get_dto(pk, U)}]
        ELSE [error |-> "UserNotFound", users |-> {}]

----------------------------------------------------------------------------
(* Token codec *)

TokenUser(user_id, user_name) == [user_id |-> user_id, user_name |-> user_name]

(* TokenPayload(token_type, user, exp, iat), all four required.  The user  *)
(* of a payload is kept as a set, empty when a decoded payload has no      *)
(* "user" entry.                                                           *)
TokenPayload(token_type, user, exp, iat) ==
    [token_type |-> token_type, user |-> {user}, exp |-> exp, iat |-> iat]

sign(header, payload, key, alg) ==
    IF alg = "none" THEN <<>> ELSE <<alg, key, header, payload>>

jwt_encode(payload, key, alg) ==
    [wellformed |-> TRUE,
     header |-> [alg |-> alg, typ |-> "JWT"],
     payload |-> payload,
     signature |-> sign([alg |-> alg, typ |-> "JWT"], payload, key, alg)]

encode_token(payload) == jwt_encode(payload, secret_key, algorithm)

(* A string that is no JWT at all *)
Malformed ==
    [wellformed |-> FALSE,
     header |-> [alg |-> "", typ |-> ""],
     payload |-> [token_type |-> "", user |-> {}, exp |-> 0, iat |-> 0],
     signature |-> <<>>]

PyJWTError ==
    {"DecodeError", "InvalidAlgorithmError", "jwt.InvalidSignatureError",
     "ImmatureSignatureError", "ExpiredSignatureError"}

(* jwt.get_unverified_header followed by the comparison of its "alg" *)
_validate_token(token) ==
    IF ~token.wellformed THEN "DecodeError"
    ELSE IF token.header.alg # algorithm THEN "InvalidSignatureError"
    ELSE ""

(* jwt.decode(token, key, algorithms=[alg]) at clock reading t: the error  *)
(* it raises, or "" when it returns the payload                            *)
jwt_decode(token, key, algorithms, t) ==
    IF ~token.wellformed THEN "DecodeError"
    ELSE IF token.header.alg \notin algorithms THEN "InvalidAlgorithmError"
    ELSE IF token.signature # sign(token.header, token.payload, key, token.header.alg)
        THEN "jwt.InvalidSignatureError"
    ELSE IF token.payload.iat > t THEN "ImmatureSignatureError"
    ELSE IF token.payload.exp <= t THEN "ExpiredSignatureError"
    ELSE ""

(* the except clauses in the other order: ExpiredSignatureError is a       *)
(* PyJWTError and would be caught as one                                   *)
decode_token_except_swapped(raised) ==
    IF raised \in PyJWTError THEN "InvalidToken"
    ELSE IF raised = "ExpiredSignatureError" THEN "TokenExpired"
    ELSE raised

(* the two except clauses of decode_token, in the order they are written;  *)
(* anything else propagates                                                *)
decode_token_except(raised) ==
    IF raised = "ExpiredSignatureError" THEN "TokenExpired"
    ELSE IF raised \in PyJWTError THEN "InvalidToken"
    ELSE raised

decode_token(token, t) ==
    LET v == _validate_token(token)
        raised == IF v # "" THEN v ELSE jwt_decode(token, secret_key, {algorithm}, t)
    IN  [error |-> decode_token_except(raised),
         payload |-> IF raised = "" THEN {token.payload} ELSE {}]

----------------------------------------------------------------------------
(* Local time.  datetime.now() is the naive wall clock of the time zone    *)
(* the process runs in, and timestamp() of a naive datetime reads it back  *)
(* as local time.  A zone is known here by the one change of its UTC       *)
(* offset: the instant of the transition and the seconds the offset        *)
(* changes by (negative when the clocks go back).  Before the transition   *)
(* the wall clock is taken to read the unix time.                          *)

(* The seconds the offset changes by: 3600 in most zones that observe      *)
(* daylight saving time, a second or two here, which puts the repeated and *)
(* the skipped wall-clock readings within MaxTime and on either side of    *)
(* the lifetimes.                                                          *)
Shifts == 1..MaxShift

UTC == [transition |-> 0, change |-> 0]

Zones ==
    {UTC} \cup {[transition |-> at, change |-> by] :
                    at \in 1..MaxTime, by \in Shifts \cup {-d : d \in Shifts}}

utcoffset(tz, t) == IF t < tz.transition THEN 0 ELSE tz.change

(* datetime.now() at unix time t, as the seconds its fields read *)
datetime_now(tz, t) == t + utcoffset(tz, t)

(* datetime.timestamp() of the naive wall-clock reading n with fold = 0,   *)
(* as the sum of a datetime and a timedelta always has it: of a repeated   *)
(* reading the first occurrence, of a skipped one the instant the offset   *)
(* before the transition gives.                                            *)
timestamp(tz, n) ==
    IF n < tz.transition THEN n
    ELSE IF n - tz.change >= tz.transition THEN n - tz.change
    ELSE n

(* int((datetime.now() + timedelta(seconds=lifetime)).timestamp()) *)
expires(tz, t, lifetime) == timestamp(tz, datetime_now(tz, t) + lifetime)

----------------------------------------------------------------------------
(* Token issuer.  t1 is the clock reading used for exp, t2 the later one   *)
(* used for iat: int(datetime.now().timestamp()) is the unix time of the   *)
(* reading, now() setting the fold of a repeated reading.                  *)

(* generate_access_token with the token_type of generate_refresh_token *)
generate_access_token_as_refresh(dto, t1, t2) ==
    encode_token(TokenPayload("refresh", TokenUser(dto.id, dto.name),
                              expires(config.tz, t1, config.access_token_lifetime), t2))

generate_access_token(dto, t1, t2) ==
    encode_token(TokenPayload("access", TokenUser(dto.id, dto.name),
                              expires(config.tz, t1, config.access_token_lifetime), t2))

generate_refresh_token(dto, t1, t2) ==
    encode_token(TokenPayload("refresh", TokenUser(dto.id, dto.name),
                              expires(config.tz, t1, config.refresh_token_lifetime), t2))

(* r: the four clock readings, in the order the code takes them *)
create_tokens(dto, r) ==
    [access_token |-> generate_access_token(dto, r[1], r[2]),
     refresh_token |-> generate_refresh_token(dto, r[3], r[4])]

(* The clock readings one request can take from time t on: non-decreasing, *)
(* the clock passing at most one second boundary while the request runs.   *)
Readings(t) ==
    {r \in [1..4 -> {t, t + 1}] : \A i \in 1..3 : r[i] <= r[i + 1]}

----------------------------------------------------------------------------
(* Results of a service call: the error raised ("" for none), the user     *)
(* records returned, the fields of a returned token DTO, every token the   *)
(* call generated, returned or not, with the method that generated it, and *)
(* the repository methods the call queried the stores through.             *)

Raise(error) ==
    [error |-> error, users |-> {}, tokens |-> {}, minted |-> {}, queries |-> {}]

ReturnUsers(us) ==
    [error |-> "", users |-> us, tokens |-> {}, minted |-> {}, queries |-> {}]

ReturnTokens(dto, minted) ==
    [error |-> "", users |-> {}, tokens |-> dto, minted |-> minted, queries |-> {}]

(* the outcome of what follows a store query made through the methods q *)
Queried(q, out) == [out EXCEPT !.queries = @ \cup q]

TokenDTO(tokens) ==
    {<<"access_token", tokens.access_token>>, <<"refresh_token", tokens.refresh_token>>}

AccessTokenDTO(access_token) == {<<"access_token", access_token>>}

Minted(tokens) ==
    {<<"generate_access_token", tokens.access_token>>,
     <<"generate_refresh_token", tokens.refresh_token>>}

----------------------------------------------------------------------------
(* User service: thin delegation to the repository *)

UserService_get(pk, U) == UserRepository_get(pk, U)

----------------------------------------------------------------------------
(* Authenticator *)

(* login without the password verification *)
login_unverified(dto, U, r) ==
    LET found == get_user(dto.login, U)
    IN  Queried({"UserRepository.get_user"},
            IF found = {} THEN Raise("UserNotFound")
            ELSE LET tokens == create_tokens(The(found), r)
                 IN  ReturnTokens(TokenDTO(tokens), Minted(tokens)))

login(dto, U, r) ==
    LET found == get_user(dto.login, U)
    IN  Queried({"UserRepository.get_user"},
            IF found = {} THEN Raise("UserNotFound")
            ELSE IF ~verify(The(found).password, dto.password)
                THEN Raise("InvalidCredentials")
            ELSE LET tokens == create_tokens(The(found), r)
                 IN  ReturnTokens(TokenDTO(tokens), Minted(tokens)))

(* the part of refresh that follows the checks of the payload: the lookup  *)
(* of the user and the issuance                                            *)
refresh_issue(user_id, U, r) ==
    LET got == UserService_get(user_id, U)
    IN  Queried({"UserRepository.get"},
            IF got.error # "" THEN Raise(got.error)
            ELSE IF got.users = {} THEN Raise("UserNotFound")
            ELSE LET tokens == create_tokens(The(got.users), r)
                 IN  ReturnTokens(AccessTokenDTO(tokens.access_token), Minted(tokens)))

(* refresh without the token_type check *)
refresh_any_type(token, U, t, r) ==
    LET d == decode_token(token, t)
    IN  IF d.error # "" THEN Raise(d.error)
        ELSE LET payload == The(d.payload)
             IN  IF payload.user = {} THEN Raise("TypeError")
                 ELSE refresh_issue(The(payload.user).user_id, U, r)

(* refresh issuing for the identity embedded in the token, without the     *)
(* lookup in the user store                                                *)
refresh_trusting_payload(token, U, t, r) ==
    LET d == decode_token(token, t)
    IN  IF d.error # "" THEN Raise(d.error)
        ELSE LET payload == The(d.payload)
             IN  IF payload.token_type # "refresh" THEN Raise("InvalidToken")
                 ELSE IF payload.user = {} THEN Raise("TypeError")
                 ELSE LET tokens == create_tokens(
                                [id |-> The(payload.user).user_id,
                                 name |-> The(payload.user).user_name], r)
                      IN  ReturnTokens(AccessTokenDTO(tokens.access_token),
                                       Minted(tokens))

(* t: the clock reading of the decode; r: the readings of the issuance.    *)
(* payload.user is None when the payload has no user: subscripting it      *)
(* raises TypeError.                                                       *)
refresh(token, U, t, r) ==
    LET d == decode_token(token, t)
    IN  IF d.error # "" THEN Raise(d.error)
        ELSE LET payload == The(d.payload)
             IN  IF payload.token_type # "refresh" THEN Raise("InvalidToken")
                 ELSE IF payload.user = {} THEN Raise("TypeError")
                 ELSE refresh_issue(The(payload.user).user_id, U, r)

(* get_current_user answering with the name embedded in the token *)
get_current_user_embedded_name(token, U, t) ==
    LET d == decode_token(token, t)
    IN  IF d.error # "" THEN Raise(d.error)
        ELSE LET payload == The(d.payload)
             IN  IF payload.user = {} THEN Raise("InvalidToken")
                 ELSE LET got == UserService_get(The(payload.user).user_id, U)
                      IN  Queried({"UserRepository.get"},
                              IF got.error # "" THEN Raise(got.error)
                              ELSE ReturnUsers(
                                  {[u EXCEPT !.name = The(payload.user).user_name] :
                                      u \in got.users}))

(* get_current_user asking the user store before it looks at the payload *)
get_current_user_lookup_first(token, U, t) ==
    LET d == decode_token(token, t)
    IN  IF d.error # "" THEN Raise(d.error)
        ELSE LET payload == The(d.payload)
             IN  Queried({"UserRepository.get"},
                     IF payload.user = {} THEN Raise("InvalidToken")
                     ELSE LET got == UserService_get(The(payload.user).user_id, U)
                          IN  IF got.error # "" THEN Raise(got.error)
                              ELSE ReturnUsers(got.users))

get_current_user(token, U, t) ==
    LET d == decode_token(token, t)
    IN  IF d.error # "" THEN Raise(d.error)
        ELSE LET payload == The(d.payload)
             IN  IF payload.user = {} THEN Raise("InvalidToken")
                 ELSE LET got == UserService_get(The(payload.user).user_id, U)
                      IN  Queried({"UserRepository.get"},
                              IF got.error # "" THEN Raise(got.error)
                              ELSE ReturnUsers(got.users))

----------------------------------------------------------------------------
(* Permission store (PermissionRepository).  A permission is known by its  *)
(* unique name; nothing deletes or renames a permission, so the rows of    *)
(* user_permissions are kept as <<user id, permission name>>.              *)

(* the permission names the routers require *)
CanManagePermissions == {"permission:create", "permission:assign", "permission:revoke"}

PermissionNames == {"emoji:create"} \cup CanManagePermissions

(* PermissionRepository.create adding the row whatever the table holds *)
PermissionRepository_create_unconstrained(name, P) ==
    [error |-> "", permissions |-> P (+) SetToBag({name})]

(* PermissionRepository.create: the commit of a row whose name the table   *)
(* already has raises IntegrityError (unique=True), which is rolled back   *)
(* and raised again as PermissionAlreadyExists                             *)
PermissionRepository_create(name, P) ==
    IF BagIn(name, P)
        THEN [error |-> "PermissionAlreadyExists", permissions |-> P]
        ELSE [error |-> "", permissions |-> P (+) SetToBag({name})]

(* the rows found: none or one *)
get_by_name(name, P) == IF BagIn(name, P) THEN {name} ELSE {}

(* the permission names in the order of the column's collation *)
Collation == <<"emoji:create", "permission:assign", "permission:create", "permission:revoke">>

(* PermissionRepository.get_all: every row of the table, ordered by name *)
get_all(P) ==
    LET Rows(i) == [k \in 1..CopiesIn(Collation[i], P) |-> Collation[i]]
    IN  Rows(1) \o Rows(2) \o Rows(3) \o Rows(4)

get_user_permissions(user_id, UP) == {row[2] : row \in {r \in UP : r[1] = user_id}}

(* The tables as one value *)
Tables(U, P, UP, E) ==
    [users |-> U, permissions |-> P, user_permissions |-> UP, emojis |-> E]

(* What the commit of a unit of work that matched no row can raise: the    *)
(* DELETE of a row another session removed meanwhile is reported as        *)
(* StaleDataError when the driver counts the rows matched, and passed over *)
(* when it does not.                                                       *)
Unmatched == {"", "StaleDataError"}

(* The outcome of assign_to_user / revoke_from_user: the exception, the    *)
(* rows of user_permissions after it, and whether it committed a change.   *)
(* U is the table users as the first SELECT of session.get finds it, UP    *)
(* the rows its second SELECT (selectinload) loads, P the permissions as   *)
(* get_by_name finds them; later is the database at the commit.  They are  *)
(* of different moments when another request has committed between the     *)
(* awaits.                                                                 *)
Unassigned(error, later) ==
    [error |-> error, user_permissions |-> later.user_permissions, committed |-> FALSE]

(* assign_to_user inserting a row for a user it did not look up *)
assign_to_user_any_user(user_id, permission_name, U, P, UP, later) ==
    IF get_by_name(permission_name, P) = {} THEN Unassigned("PermissionNotFound", later)
    ELSE IF <<user_id, permission_name>> \in UP THEN Unassigned("", later)
    ELSE IF <<user_id, permission_name>> \in later.user_permissions
        THEN Unassigned("IntegrityError", later)
    ELSE [error |-> "",
          user_permissions |-> later.user_permissions \cup {<<user_id, permission_name>>},
          committed |-> TRUE]

(* assign_to_user appending without the membership test: a second row with *)
(* the same primary key is refused by the database                         *)
assign_to_user_unchecked(user_id, permission_name, U, P, UP, later) ==
    IF user_id \notin DOMAIN U THEN Unassigned("UserNotFound", later)
    ELSE IF get_by_name(permission_name, P) = {} THEN Unassigned("PermissionNotFound", later)
    ELSE IF \/ user_id \notin DOMAIN later.users
            \/ <<user_id, permission_name>> \in later.user_permissions
        THEN Unassigned("IntegrityError", later)
    ELSE [error |-> "",
          user_permissions |-> later.user_permissions \cup {<<user_id, permission_name>>},
          committed |-> TRUE]

(* session.get loads the user and the permissions it holds; the membership *)
(* test is made on what was loaded, and the INSERT of the commit on the    *)
(* database as it is then: a row another request has inserted meanwhile    *)
(* breaks the primary key, a user deleted meanwhile the foreign key, both  *)
(* IntegrityError.                                                         *)
assign_to_user(user_id, permission_name, U, P, UP, later) ==
    IF user_id \notin DOMAIN U THEN Unassigned("UserNotFound", later)
    ELSE IF get_by_name(permission_name, P) = {} THEN Unassigned("PermissionNotFound", later)
    ELSE IF <<user_id, permission_name>> \in UP THEN Unassigned("", later)
    ELSE IF \/ user_id \notin DOMAIN later.users
            \/ <<user_id, permission_name>> \in later.user_permissions
        THEN Unassigned("IntegrityError", later)
    ELSE [error |-> "",
          user_permissions |-> later.user_permissions \cup {<<user_id, permission_name>>},
          committed |-> TRUE]

(* revoke_from_user removing without the membership test: list.remove of   *)
(* an element that is not in the list raises ValueError                    *)
revoke_from_user_unchecked(user_id, permission_name, U, P, UP, later, unmatched) ==
    IF user_id \notin DOMAIN U THEN Unassigned("UserNotFound", later)
    ELSE IF get_by_name(permission_name, P) = {} THEN Unassigned("PermissionNotFound", later)
    ELSE IF <<user_id, permission_name>> \notin UP THEN Unassigned("ValueError", later)
    ELSE IF <<user_id, permission_name>> \notin later.user_permissions
        THEN Unassigned(unmatched, later)
    ELSE [error |-> "",
          user_permissions |-> later.user_permissions \ {<<user_id, permission_name>>},
          committed |-> TRUE]

(* revoke_from_user committing without the row being deleted *)
revoke_from_user_without_delete(user_id, permission_name, U, P, UP, later, unmatched) ==
    IF user_id \notin DOMAIN U THEN Unassigned("UserNotFound", later)
    ELSE IF get_by_name(permission_name, P) = {} THEN Unassigned("PermissionNotFound", later)
    ELSE IF <<user_id, permission_name>> \notin UP THEN Unassigned("", later)
    ELSE IF <<user_id, permission_name>> \notin later.user_permissions
        THEN Unassigned(unmatched, later)
    ELSE [error |-> "", user_permissions |-> later.user_permissions, committed |-> TRUE]

(* The membership test is made on the permissions session.get loaded, and  *)
(* the DELETE of the commit on the database as it is then: when another    *)
(* request has removed the row meanwhile (a revoke, or the cascade of the  *)
(* deletion of the user) it matches no row.                                *)
revoke_from_user(user_id, permission_name, U, P, UP, later, unmatched) ==
    IF user_id \notin DOMAIN U THEN Unassigned("UserNotFound", later)
    ELSE IF get_by_name(permission_name, P) = {} THEN Unassigned("PermissionNotFound", later)
    ELSE IF <<user_id, permission_name>> \notin UP THEN Unassigned("", later)
    ELSE IF <<user_id, permission_name>> \notin later.user_permissions
        THEN Unassigned(unmatched, later)
    ELSE [error |-> "",
          user_permissions |-> later.user_permissions \ {<<user_id, permission_name>>},
          committed |-> TRUE]

----------------------------------------------------------------------------
(* PermissionService.check_user_permissions: whether the check passes, and *)
(* the repository methods it queried                                       *)

(* without the early return for an empty required set *)
check_user_permissions_no_early_return(user_id, required, UP) ==
    [passed |-> required \subseteq get_user_permissions(user_id, UP),
     queries |-> {"PermissionRepository.get_user_permissions"}]

(* passing when any one of the required permissions is held *)
check_user_permissions_any(user_id, required, UP) ==
    IF required = {} THEN [passed |-> TRUE, queries |-> {}]
    ELSE [passed |-> required \cap get_user_permissions(user_id, UP) # {},
          queries |-> {"PermissionRepository.get_user_permissions"}]

check_user_permissions(user_id, required, UP) ==
    IF required = {} THEN [passed |-> TRUE, queries |-> {}]
    ELSE [passed |-> required \subseteq get_user_permissions(user_id, UP),
          queries |-> {"PermissionRepository.get_user_permissions"}]

----------------------------------------------------------------------------
(* Permission guard (protection.py).  An HTTPException is known by its     *)
(* status code.                                                            *)

HTTPException(status_code) == Raise(status_code)

(* access_token: the access-token header, NoToken when the request has     *)
(* none.  Any exception of get_current_user becomes a 401.                 *)
authenticated_user(access_token, U, t) ==
    IF access_token = {} THEN HTTPException("HTTP_401_UNAUTHORIZED")
    ELSE LET out == get_current_user(The(access_token), U, t)
         IN  IF out.error # ""
                 THEN Queried(out.queries, HTTPException("HTTP_401_UNAUTHORIZED"))
                 ELSE out

(* PermissionChecker.__call__ letting the user through whatever the check  *)
(* answered                                                                *)
PermissionChecker_unenforced(required, user, UP) ==
    LET c == check_user_permissions(user.id, required, UP)
    IN  Queried(c.queries, ReturnUsers({user}))

(* PermissionChecker(required).__call__(user, permission_service) *)
PermissionChecker(required, user, UP) ==
    LET c == check_user_permissions(user.id, required, UP)
    IN  Queried(c.queries,
            IF ~c.passed THEN HTTPException("HTTP_403_FORBIDDEN")
            ELSE ReturnUsers({user}))

(* Depends(PermissionChecker(required)): the sub-dependency AuthUser is    *)
(* resolved first, and its exception ends the request.                     *)
Depends_PermissionChecker(required, access_token, U, UP, t) ==
    LET a == authenticated_user(access_token, U, t)
    IN  IF a.error # "" THEN a
        ELSE Queried(a.queries, PermissionChecker(required, The(a.users), UP))

(* The status code of the response: that of the HTTPException raised, that *)
(* add_handlers gives the exception (handlers.py), or that of the route.   *)
status_code(error, success) ==
    CASE error = "" -> success
      [] error = "HTTP_401_UNAUTHORIZED" -> 401
      [] error = "HTTP_403_FORBIDDEN" -> 403
      [] error \in {"UserNotFound", "PermissionNotFound"} -> 404
      [] error \in {"PermissionAlreadyExists", "AlreadyExistError"} -> 409
      [] error \in {"ValidationError", "PaginationError",
                    "SeveralAnswersFoundException"} -> 400
      [] error \in {"InvalidToken", "TokenExpired", "InvalidCredentials",
                    "InvalidSignatureError"} -> 401
      [] OTHER -> 500

(* EmojiRepository.create: the row added, or the IntegrityError of the     *)
(* commit, raised for the unique constraint on character and for the       *)
(* foreign key of created_by_user_id on users.id when the creator has no   *)
(* row in U, the table users at the commit.                                *)
EmojiRepository_create(character, creator_id, E, U) ==
    IF (\E e \in E : e.character = character) \/ creator_id \notin DOMAIN U
        THEN [error |-> "IntegrityError", emojis |-> E]
        ELSE [error |-> "",
              emojis |-> E \cup {[character |-> character,
                                  created_by_user_id |-> {creator_id}]}]

----------------------------------------------------------------------------
(* Requests run concurrently, each in a session of its own (get_session),  *)
(* and a handler gives way at every await: what another request commits    *)
(* meanwhile is in the database when the handler goes on.  A commit is     *)
(* known by the repository method that made it and its arguments.          *)

Commit(op, user_id, name) == [op |-> op, user_id |-> user_id, name |-> name]

NoCommit == Commit("none", 0, "")

(* UserRepository.delete: the row, and what the foreign keys on users.id   *)
(* do: the rows of user_permissions are deleted (CASCADE), the creator of  *)
(* an emoji is set to NULL.                                                *)
UserRepository_delete(pk, db) ==
    [db EXCEPT !.users = [k \in DOMAIN @ \ {pk} |-> @[k]],
               !.user_permissions = {row \in @ : row[1] # pk},
               !.emojis = {[e EXCEPT !.created_by_user_id = @ \ {pk}] : e \in @}]

(* UserRepository.update with UpdateUserDTO(name=...) *)
UserRepository_update(pk, name, db) ==
    IF pk \in DOMAIN db.users THEN [db EXCEPT !.users[pk].name = name] ELSE db

(* UserRepository.update_password with the digest UserService made *)
UserRepository_update_password(pk, new_password, db) ==
    IF pk \in DOMAIN db.users THEN [db EXCEPT !.users[pk].password = new_password] ELSE db

(* the database after the commit c of another request; the name of an     *)
(* update_password is the password given                                   *)
Land(c, db) ==
    CASE c.op = "delete" -> UserRepository_delete(c.user_id, db)
      [] c.op = "update" -> UserRepository_update(c.user_id, c.name, db)
      [] c.op = "update_password" ->
            UserRepository_update_password(c.user_id, hash_password(c.name), db)
      [] c.op = "assign" ->
            [db EXCEPT !.user_permissions =
                assign_to_user(c.user_id, c.name, db.users, db.permissions, @, db)
                    .user_permissions]
      [] c.op = "revoke" ->
            [db EXCEPT !.user_permissions =
                revoke_from_user(c.user_id, c.name, db.users, db.permissions, @, db, "")
                    .user_permissions]
      [] OTHER -> db

(* The commits among cs that change db, and none.  A commit that changes   *)
(* nothing cannot be told from none.                                       *)
Meanwhile(cs, db) == {NoCommit} \cup {c \in cs : Land(c, db) # db}

----------------------------------------------------------------------------
(* What a client can present: the tokens it was given, and what it can     *)
(* make of them without the server's key.                                  *)

FlipSignature(t) ==
    [t EXCEPT !.signature = sign(t.header, t.payload, "corrupted", t.header.alg)]

SignWithOtherKey(t) == jwt_encode(t.payload, attacker_key, t.header.alg)

DeclareAlgorithm(t, alg) == jwt_encode(t.payload, attacker_key, alg)

Relabel(t) ==
    [t EXCEPT !.payload.token_type =
        IF t.payload.token_type = "access" THEN "refresh" ELSE "access"]

Forgeries(t) ==
    {FlipSignature(t), SignWithOtherKey(t), Relabel(t)}
        \cup {DeclareAlgorithm(t, alg) : alg \in OtherAlgorithms}

(* A token whose payload has no "user" entry, signed with the server's key *)
(* and algorithm.  TokenPayload requires user, so nothing TokenService     *)
(* issues is one: it is what another holder of secret_key makes with       *)
(* jwt.encode, here with the type and the times of t, and the case the     *)
(* tests of payload.get("user") in AuthService are written for.            *)
WithoutUser(t) == jwt_encode([t.payload EXCEPT !.user = {}], secret_key, algorithm)

(* held: the token DTO fields the client keeps, a later access_token or   *)
(* refresh_token replacing the one it had                                  *)
Keep(old, given) == given \cup {f \in old : \A g \in given : g[1] # f[1]}

HeldTokens == {f[2] : f \in held}

Presentable ==
    HeldTokens \cup UNION {Forgeries(t) : t \in HeldTokens}
        \cup {WithoutUser(t) : t \in HeldTokens} \cup {Malformed}

----------------------------------------------------------------------------
(* State *)

(* The database sessions of two requests running concurrently: get_session *)
(* gives every request a session of its own.                               *)
Workers == {1, 2}

NoSession ==
    [pc |-> "idle", op |-> "", user_id |-> 0, permission |-> "", loaded |-> {},
     error |-> ""]

NoSessions == [base |-> {}, of |-> [w \in Workers |-> NoSession]]

(* What the client has done with the API so far: per (user, permission)    *)
(* the last assign or revoke request that committed, the tokens it held    *)
(* when a request of it last committed a change, and the refresh tokens it *)
(* holds that refresh has accepted before.                                 *)
NoHistory == [latest |-> {}, aged |-> {}, used |-> {}]

TokensOf(fields) == {f[2] : f \in fields}

(* the client has been given new tokens and keeps the fields given *)
Given(fields) ==
    [history EXCEPT !.aged = @ \cap TokensOf(fields), !.used = @ \cap TokensOf(fields)]

(* refresh accepted the token and the client keeps the fields given *)
Used(token, fields) ==
    [history EXCEPT !.aged = @ \cap TokensOf(fields),
                    !.used = (@ \cup {token}) \cap TokensOf(fields)]

(* a request of the client committed an assign or a revoke: the history   *)
(* h after it                                                              *)
ChangedIn(h, op, user_id, permission_name) ==
    [h EXCEPT
        !.latest = {c \in @ : <<c[1], c[2]>> # <<user_id, permission_name>>}
                       \cup {<<user_id, permission_name, op>>},
        !.aged = TokensOf(held)]

Changed(op, user_id, permission_name) ==
    ChangedIn(history, op, user_id, permission_name)

(* the history h after the commit c of another request *)
Noted(c, h) ==
    CASE c.op = "delete" -> [h EXCEPT !.latest = {x \in @ : x[1] # c.user_id}]
      [] c.op \in {"assign", "revoke"} -> ChangedIn(h, c.op, c.user_id, c.name)
      [] OTHER -> h

NoToken == {}

(* auth/router.py annotates the parameter user of POST /auth/refresh and   *)
(* POST /auth/me with AuthUser and imports only PermissionChecker from     *)
(* src.protection (line 11): as written the name is unbound and importing  *)
(* the module raises NameError, so that none of its routes is served.  It  *)
(* is bound, to the AuthUser of protection.py, only where whoever imports  *)
(* the module has put the name in builtins.                                *)
Unbound == "NameError"
AuthUserBindings == {Unbound, "protection.AuthUser"}

NoSnapshot ==
    [users |-> <<>>, permissions |-> EmptyBag, user_permissions |-> {}, emojis |-> {}]

(* the database as it is *)
Database == Tables(users, permissions, user_permissions, emojis)

(* the contents of the tables, taken when a request starts *)
Snapshot == Database

(* A call of the authenticator and its outcome.  The fields after payload  *)
(* are those of the calls of the permission store and of the guarded       *)
(* requests, here at the value they have when they do not apply; reused    *)
(* tells that refresh had accepted the token given on an earlier call,     *)
(* refresh_token is the token header of POST /auth/refresh, meanwhile      *)
(* lists what other requests committed while the call awaited, and rows    *)
(* is the list get_all_permissions returned, and checked the rows of       *)
(* user_permissions the guard or the selectin load of session.get read.   *)
Call(op, token, login_, password, at, out, payload) ==
    [op |-> op, token |-> token, login |-> login_, password |-> password,
     at |-> at, error |-> out.error, users |-> out.users, tokens |-> out.tokens,
     minted |-> out.minted, queries |-> out.queries, payload |-> payload,
     user_id |-> 0, permission |-> "", required |-> {}, passed |-> FALSE,
     committed |-> FALSE, status |-> 0, ran |-> FALSE, before |-> NoSnapshot,
     reused |-> FALSE, refresh_token |-> NoToken, meanwhile |-> <<>>,
     rows |-> <<>>, checked |-> {}]

(* A call of PermissionService: its arguments, the error it raised, what   *)
(* check_user_permissions answered, whether the repository committed, and  *)
(* the contents of the tables before the call.                             *)
StoreCall(op, user_id, permission, required, error, passed, committed, queries) ==
    [Call(op, NoToken, "", "", now, Queried(queries, Raise(error)), {})
        EXCEPT !.user_id = user_id, !.permission = permission,
               !.required = required, !.passed = passed,
               !.committed = committed, !.before = Snapshot]

Idle == Call("idle", NoToken, "", "", 0, Raise(""), {})

(* the database a step leaves *)
Write(db) ==
    /\ users' = db.users
    /\ permissions' = db.permissions
    /\ user_permissions' = db.user_permissions
    /\ emojis' = db.emojis

(* the commits that landed during a call, none left out *)
Landed(cs) == SelectSeq(cs, LAMBDA c : c # NoCommit)

(* no other request committed while the call in flight awaited *)
Undisturbed == last.meanwhile = <<>>

(* the database after the commits cs of other requests, in their order *)
RECURSIVE LandAll(_, _)
LandAll(cs, db) ==
    IF cs = <<>> THEN db ELSE LandAll(Tail(cs), Land(Head(cs), db))

(* an empty database *)
EmptyStores ==
    /\ users = <<>>
    /\ nextId = 1
    /\ permissions = EmptyBag
    /\ user_permissions = {}
    /\ emojis = {}

Init ==
    /\ now = 0
    /\ EmptyStores
    /\ held = {}
    /\ sessions = NoSessions
    /\ history = NoHistory
    /\ config \in [access_token_lifetime : Lifetimes, refresh_token_lifetime : Lifetimes,
                   tz : {UTC}, AuthUser : {Unbound}]
    /\ last = Idle

(* The clock moves on between requests *)
Tick ==
    /\ last = Idle
    /\ UNCHANGED <<stores, sessions, history>>
    /\ now < MaxTime
    /\ now' = now + 1
    /\ UNCHANGED <<users, nextId, held, config, last>>

(* The client has read the response of its request; last is the response   *)
(* of the one request in flight.                                           *)
Return ==
    /\ last # Idle
    /\ last' = Idle
    /\ UNCHANGED <<stores, sessions, history>>
    /\ UNCHANGED <<now, users, nextId, held, config>>

(* What other requests can commit on the row pk of users *)
OnUser(ops, pk) ==
    {Commit("delete", pk, "") : op \in ops \cap {"delete"}}
        \cup {Commit("update", pk, name) : name \in {n \in Names : "update" \in ops}}
        \cup {Commit("update_password", pk, password) :
                  password \in {w \in Passwords : "update_password" \in ops}}

(* AuthService.registration -> UserService.create -> UserRepository.create. *)
(* The INSERT takes the next value of the sequence of users.id, which a    *)
(* rollback does not give back.  After the commit the row is there for     *)
(* every other request, and what one of them commits on it (ops) before    *)
(* session.refresh reads it back is what the method returns: the row as    *)
(* updated, or InvalidRequestError when it has been deleted.               *)
Register(ops) ==
    \E dto \in Registrations :
        LET created == Tables((nextId :> UserModel(dto)) @@ users, permissions,
                              user_permissions, emojis)
        IN  /\ last = Idle
            /\ UNCHANGED <<stores, sessions, history>>
            /\ nextId <= MaxUsers
            /\ nextId' = nextId + 1
            /\ IF \E pk \in DOMAIN users : users[pk].login = dto.login
                 THEN /\ last' = Call("registration", NoToken, dto.login, dto.password,
                                      now, Raise("AlreadyExistError"), {})
                      /\ UNCHANGED users
                 ELSE \E c \in Meanwhile(OnUser(ops, nextId), created) :
                        /\ users' = Land(c, created).users
                        /\ last' = [Call("registration", NoToken, dto.login, dto.password,
                                         now,
                                         IF nextId \in DOMAIN Land(c, created).users
                                             THEN ReturnUsers({_get_dto(nextId,
                                                      Land(c, created).users)})
                                             ELSE Raise("InvalidRequestError"), {})
                                       EXCEPT !.meanwhile = Landed(<<c>>)]
            /\ UNCHANGED <<now, held, config>>

(* the service call in a specification whose other requests on the new    *)
(* row are deletions                                                       *)
Registration == Register({"delete"})

(* UserService.delete -> UserRepository.delete *)
DeleteUser ==
    \E pk \in 1..MaxUsers :
        /\ last = Idle
        /\ Write(UserRepository_delete(pk, Database))
        /\ history' = Noted(Commit("delete", pk, ""), history)
        /\ last' = Call("delete", NoToken, "", "", now, Raise(""), {})
        /\ UNCHANGED <<sessions, now, nextId, held, config>>

(* UserService.update -> UserRepository.update, with UpdateUserDTO(name=...) *)
UpdateUser ==
    \E pk \in 1..MaxUsers, name \in Names :
        /\ last = Idle
        /\ UNCHANGED <<stores, sessions, history>>
        /\ users' = UserRepository_update(pk, name, Database).users
        /\ last' = Call("update", NoToken, "", "", now,
                        IF pk \in DOMAIN users
                            THEN ReturnUsers({_get_dto(pk, users')})
                            ELSE Raise("UserNotFound"), {})
        /\ UNCHANGED <<now, nextId, held, config>>

(* UserService.update_password -> UserRepository.update_password: the      *)
(* digest of the new password replaces the one stored                      *)
UpdatePassword ==
    \E pk \in 1..MaxUsers, password \in Passwords :
        /\ last = Idle
        /\ UNCHANGED <<stores, sessions, history>>
        /\ users' = UserRepository_update_password(pk, hash_password(password),
                                                   Database).users
        /\ last' = Call("update_password", NoToken, "", password, now,
                        IF pk \in DOMAIN users
                            THEN ReturnUsers({_get_dto(pk, users')})
                            ELSE Raise("UserNotFound"), {})
        /\ UNCHANGED <<now, nextId, held, config>>

(* A call that raises reads no clock for issuance; one that succeeds takes  *)
(* the four readings of create_tokens, and the clock has moved on to the   *)
(* last of them when it returns.                                           *)
NoReadings == [i \in 1..4 |-> now]

Login ==
    /\ last = Idle
    /\ UNCHANGED <<stores, sessions>>
    /\ \E login_ \in Logins, password \in Passwords :
        LET dto == [login |-> login_, password |-> password]
        IN  IF login(dto, users, NoReadings).error # ""
              THEN /\ last' = Call("login", NoToken, login_, password, now,
                                   login(dto, users, NoReadings), {})
                   /\ UNCHANGED <<now, users, nextId, held, config, history>>
              ELSE \E r \in Readings(now) :
                   /\ r[4] <= MaxTime
                   /\ now' = r[4]
                   /\ held' = Keep(held, login(dto, users, r).tokens)
                   /\ history' = Given(Keep(held, login(dto, users, r).tokens))
                   /\ last' = Call("login", NoToken, login_, password, now,
                                   login(dto, users, r), {})
                   /\ UNCHANGED <<users, nextId, config>>

(* refresh accepting a refresh token once only *)
Refresh_single_use ==
    /\ last = Idle
    /\ UNCHANGED <<stores, sessions>>
    /\ \E token \in Presentable :
        IF refresh(token, users, now, NoReadings).error # "" \/ token \in history.used
          THEN /\ last' = [Call("refresh", {token}, "", "", now,
                                IF token \in history.used
                                    THEN Raise("InvalidToken")
                                    ELSE refresh(token, users, now, NoReadings), {})
                               EXCEPT !.reused = token \in history.used]
               /\ UNCHANGED <<now, users, nextId, held, config, history>>
          ELSE \E r \in Readings(now) :
               /\ r[4] <= MaxTime
               /\ now' = r[4]
               /\ held' = Keep(held, refresh(token, users, now, r).tokens)
               /\ history' = Used(token, Keep(held, refresh(token, users, now, r).tokens))
               /\ last' = [Call("refresh", {token}, "", "", now,
                                refresh(token, users, now, r), {})
                               EXCEPT !.reused = token \in history.used]
               /\ UNCHANGED <<users, nextId, config>>

Refresh ==
    /\ last = Idle
    /\ UNCHANGED <<stores, sessions>>
    /\ \E token \in Presentable :
        IF refresh(token, users, now, NoReadings).error # ""
          THEN /\ last' = [Call("refresh", {token}, "", "", now,
                                refresh(token, users, now, NoReadings), {})
                               EXCEPT !.reused = token \in history.used]
               /\ UNCHANGED <<now, users, nextId, held, config, history>>
          ELSE \E r \in Readings(now) :
               /\ r[4] <= MaxTime
               /\ now' = r[4]
               /\ held' = Keep(held, refresh(token, users, now, r).tokens)
               /\ history' = Used(token, Keep(held, refresh(token, users, now, r).tokens))
               /\ last' = [Call("refresh", {token}, "", "", now,
                                refresh(token, users, now, r), {})
                               EXCEPT !.reused = token \in history.used]
               /\ UNCHANGED <<users, nextId, config>>

GetCurrentUser ==
    /\ last = Idle
    /\ UNCHANGED <<stores, sessions, history>>
    /\ \E token \in Presentable :
        /\ last' = Call("get_current_user", {token}, "", "", now,
                        get_current_user(token, users, now), {})
        /\ UNCHANGED <<now, users, nextId, held, config>>

DecodeToken ==
    /\ last = Idle
    /\ UNCHANGED <<stores, sessions, history>>
    /\ \E token \in Presentable :
        LET d == decode_token(token, now)
        IN  /\ last' = Call("decode_token", {token}, "", "", now, Raise(d.error), d.payload)
            /\ UNCHANGED <<now, users, nextId, held, config>>

Next ==
    \/ Tick
    \/ Return
    \/ Register({"delete", "update_password"})
    \/ DeleteUser
    \/ UpdatePassword
    \/ Login
    \/ Refresh
    \/ GetCurrentUser
    \/ DecodeToken

Spec == Init /\ [][Next]_vars

----------------------------------------------------------------------------
(* The issuer in every zone: one registered user logs in and refreshes     *)
(* before, across and after the change of the UTC offset, under every      *)
(* pair of lifetimes.                                                      *)

ZoneInit ==
    /\ now = 0
    /\ users = (1 :> UserModel(CHOOSE dto \in Registrations : dto.login = "ann@hub"))
    /\ nextId = 2
    /\ permissions = EmptyBag
    /\ user_permissions = {}
    /\ emojis = {}
    /\ held = {}
    /\ sessions = NoSessions
    /\ history = NoHistory
    /\ config \in [access_token_lifetime : Lifetimes, refresh_token_lifetime : Lifetimes,
                   tz : Zones, AuthUser : {Unbound}]
    /\ last = Idle

ZoneNext ==
    \/ Tick
    \/ Return
    \/ Login
    \/ Refresh
    \/ DecodeToken

ZoneSpec == ZoneInit /\ [][ZoneNext]_vars

----------------------------------------------------------------------------
(* Users that change their name between the issuance of a token and its    *)
(* resolution: the user store with update, login and get_current_user,     *)
(* under one configuration in which tokens live as long as the model runs. *)

ProfileInit ==
    /\ now = 0
    /\ EmptyStores
    /\ held = {}
    /\ sessions = NoSessions
    /\ history = NoHistory
    /\ config = [access_token_lifetime |-> MaxLifetime,
                 refresh_token_lifetime |-> MaxLifetime, tz |-> UTC,
                 AuthUser |-> Unbound]
    /\ last = Idle

ProfileNext ==
    \/ Tick
    \/ Return
    \/ Register({"delete", "update", "update_password"})
    \/ DeleteUser
    \/ UpdateUser
    \/ UpdatePassword
    \/ Login
    \/ GetCurrentUser

ProfileSpec == ProfileInit /\ [][ProfileNext]_vars

----------------------------------------------------------------------------
(* The permission store on its own: the calls of PermissionService over    *)
(* the users that register and are deleted.                                *)

(* PermissionService.create_permission -> PermissionRepository.create *)
CreatePermission ==
    \E name \in PermissionNames :
        LET out == PermissionRepository_create(name, permissions)
        IN  /\ last = Idle
            /\ permissions' = out.permissions
            /\ last' = StoreCall("create_permission", 0, name, {}, out.error,
                                 FALSE, out.error = "", {})
            /\ UNCHANGED <<sessions, history, now, users, nextId, held, config, user_permissions, emojis>>

(* PermissionService.get_all_permissions -> PermissionRepository.get_all *)
GetAllPermissions ==
    /\ last = Idle
    /\ last' = [StoreCall("get_all_permissions", 0, "", {}, "", FALSE, FALSE,
                          {"PermissionRepository.get_all"})
                   EXCEPT !.rows = get_all(permissions)]
    /\ UNCHANGED <<sessions, history, now, users, nextId, held, config, stores>>

(* What other calls of the store can commit on the rows an assign or a     *)
(* revoke of (user_id, permission_name) reads                              *)
OnHolding(user_id, permission_name) ==
    {Commit("delete", user_id, ""), Commit("assign", user_id, permission_name),
     Commit("revoke", user_id, permission_name)}

(* PermissionService.assign_permission_to_user -> assign_to_user.          *)
(* session.get with selectinload is two SELECTs, of the user and then of   *)
(* the permissions it holds: c1 is what another call commits between the   *)
(* two, c2 between the lookups and the commit.                             *)
AssignPermissionToUser ==
    /\ last = Idle
    /\ \E user_id \in 1..MaxUsers, permission_name \in PermissionNames :
       \E c1 \in Meanwhile(OnHolding(user_id, permission_name), Database) :
       \E c2 \in Meanwhile(OnHolding(user_id, permission_name), Land(c1, Database)) :
        LET loaded == Land(c1, Database)
            out == assign_to_user(user_id, permission_name, users, loaded.permissions,
                       loaded.user_permissions, Land(c2, loaded))
        IN  /\ Write([Land(c2, loaded) EXCEPT !.user_permissions = out.user_permissions])
            /\ last' = [StoreCall("assign", user_id, permission_name, {}, out.error,
                                  FALSE, out.committed,
                                  {"PermissionRepository.assign_to_user"})
                           EXCEPT !.meanwhile = Landed(<<c1, c2>>),
                                  !.checked = loaded.user_permissions]
    /\ UNCHANGED <<sessions, history, now, nextId, held, config>>

(* PermissionService.revoke_permission_from_user -> revoke_from_user, with *)
(* the same awaits                                                         *)
RevokePermissionFromUser ==
    /\ last = Idle
    /\ \E user_id \in 1..MaxUsers, permission_name \in PermissionNames :
       \E c1 \in Meanwhile(OnHolding(user_id, permission_name), Database) :
       \E c2 \in Meanwhile(OnHolding(user_id, permission_name), Land(c1, Database)),
          unmatched \in Unmatched :
        LET loaded == Land(c1, Database)
            out == revoke_from_user(user_id, permission_name, users, loaded.permissions,
                       loaded.user_permissions, Land(c2, loaded), unmatched)
        IN  /\ Write([Land(c2, loaded) EXCEPT !.user_permissions = out.user_permissions])
            /\ last' = [StoreCall("revoke", user_id, permission_name, {}, out.error,
                                  FALSE, out.committed,
                                  {"PermissionRepository.revoke_from_user"})
                           EXCEPT !.meanwhile = Landed(<<c1, c2>>),
                                  !.checked = loaded.user_permissions]
    /\ UNCHANGED <<sessions, history, now, nextId, held, config>>

(* check_user_permissions deleting the rows it has checked *)
CheckUserPermissions_consuming ==
    \E user_id \in 1..MaxUsers, required \in SUBSET PermissionNames :
        LET out == check_user_permissions(user_id, required, user_permissions)
        IN  /\ last = Idle
            /\ last' = StoreCall("check_user_permissions", user_id, "", required, "",
                                 out.passed, FALSE, out.queries)
            /\ user_permissions' = {row \in user_permissions :
                                        row[1] # user_id \/ row[2] \notin required}
            /\ UNCHANGED <<sessions, history, now, users, nextId, held, config,
                           permissions, emojis>>

(* PermissionService.check_user_permissions, for any user id and any set   *)
(* of the permission names                                                 *)
CheckUserPermissions ==
    \E user_id \in 1..MaxUsers, required \in SUBSET PermissionNames :
        LET out == check_user_permissions(user_id, required, user_permissions)
        IN  /\ last = Idle
            /\ last' = StoreCall("check_user_permissions", user_id, "", required, "",
                                 out.passed, FALSE, out.queries)
            /\ UNCHANGED <<sessions, history, now, users, nextId, held, config, stores>>

PermissionInit ==
    /\ now = 0
    /\ EmptyStores
    /\ held = {}
    /\ sessions = NoSessions
    /\ history = NoHistory
    /\ config = [access_token_lifetime |-> MaxLifetime,
                 refresh_token_lifetime |-> MaxLifetime, tz |-> UTC,
                 AuthUser |-> Unbound]
    /\ last = Idle

PermissionNext ==
    \/ Return
    \/ Registration
    \/ DeleteUser
    \/ CreatePermission
    \/ GetAllPermissions
    \/ AssignPermissionToUser
    \/ RevokePermissionFromUser
    \/ CheckUserPermissions

PermissionSpec == PermissionInit /\ [][PermissionNext]_vars

----------------------------------------------------------------------------
(* The guarded routes: POST /emojis/ behind PermissionChecker of           *)
(* {"emoji:create"}, and the routes of the permission router behind        *)
(* CanManagePermissions.                                                   *)

(* What the requests carry in the access-token header: nothing, or any    *)
(* token a client can present.                                             *)
GuardTokens == {NoToken} \cup {{t} : t \in Presentable}

(* the emoji the requests create, the permission they create, assign and   *)
(* revoke                                                                  *)
Characters == {"U+1F600"}
ManagedNames == {"emoji:create"}

(* A guarded request and its response: the header, the arguments of the    *)
(* route, the set its guard requires, the user authenticated_user resolved *)
(* (none when it raised), the outcome of the guard, the exception of the   *)
(* body, the status code, and whether the body of the route ran.           *)
Request(op, access_token, user_id, permission, required, identity, guard, error, success, ran) ==
    [Call(op, access_token, "", "", now,
          [guard EXCEPT !.error = IF guard.error # "" THEN guard.error ELSE error,
                        !.users = identity], {})
        EXCEPT !.user_id = user_id, !.permission = permission,
               !.required = required, !.passed = (guard.error = ""),
               !.status = status_code(IF guard.error # "" THEN guard.error ELSE error,
                                      success),
               !.ran = ran, !.before = Snapshot]

(* some request passes the guard of the permission router *)
Passable(db) ==
    \E access_token \in GuardTokens :
        Depends_PermissionChecker(CanManagePermissions, access_token, db.users,
                                  db.user_permissions, now).error = ""

(* What the other requests can commit on the rows of the users user_ids    *)
(* while a guarded request awaits: the deletion of the user, and the       *)
(* assign or revoke of one of names by a request that passes the guard of  *)
(* its route.                                                              *)
Concurrent(user_ids, names, db) ==
    {Commit("delete", u, "") : u \in user_ids}
        \cup {Commit(op, u, name) :
                 op \in {o \in {"assign", "revoke"} : Passable(db)},
                 u \in user_ids, name \in names}

(* the response of a request during which cs were committed, its guard     *)
(* having read the user_permissions of db (NoSnapshot: the route checks no *)
(* permission)                                                             *)
Overtaken(request, cs, db) ==
    [request EXCEPT !.meanwhile = Landed(cs), !.checked = db.user_permissions]

(* Depends(PermissionChecker(required)) awaits twice: authenticated_user   *)
(* selects the user, then check_user_permissions selects the permissions   *)
(* held.  What another request can commit between the two: nothing when    *)
(* authenticated_user raised, for the request ends there.                  *)
InGuard(required, access_token) ==
    LET a == authenticated_user(access_token, users, now)
    IN  IF a.error # "" THEN {NoCommit}
        ELSE Meanwhile(Concurrent({u.id : u \in a.users}, required, Database), Database)

(* emoji/router.py create_emoji -> EmojiService.create_emoji.  c0 is       *)
(* committed between the two awaits of the guard, c between the guard and  *)
(* the body, which finds the database as it is by then.                    *)
CreateEmojiRequest ==
    /\ last = Idle
    /\ \E access_token \in GuardTokens, character \in Characters :
       \E c0 \in InGuard({"emoji:create"}, access_token) :
        LET required == {"emoji:create"}
            read == Land(c0, Database)
            a == authenticated_user(access_token, users, now)
            g == Depends_PermissionChecker(required, access_token, users,
                                           read.user_permissions, now)
        IN  IF g.error # ""
              THEN /\ Write(read)
                   /\ history' = Noted(c0, history)
                   /\ last' = Overtaken(
                          Request("create_emoji", access_token, 0, "", required,
                                  a.users, g, "", 201, FALSE), <<c0>>, read)
              ELSE \E c \in Meanwhile(Concurrent({u.id : u \in g.users}, required, read),
                                      read) :
                     LET later == Land(c, read)
                         body == EmojiRepository_create(character, The(g.users).id,
                                                        later.emojis, later.users)
                     IN  /\ Write([later EXCEPT !.emojis = body.emojis])
                         /\ history' = Noted(c, Noted(c0, history))
                         /\ last' = Overtaken(
                                Request("create_emoji", access_token, 0, "", required,
                                        a.users, g, body.error, 201, TRUE),
                                <<c0, c>>, read)
    /\ UNCHANGED <<sessions, now, nextId, held, config>>

(* permission/router.py create_permission *)
CreatePermissionRequest ==
    /\ last = Idle
    /\ \E access_token \in GuardTokens, name \in ManagedNames :
       \E c0 \in InGuard(CanManagePermissions, access_token) :
        LET read == Land(c0, Database)
            a == authenticated_user(access_token, users, now)
            g == Depends_PermissionChecker(CanManagePermissions, access_token, users,
                                           read.user_permissions, now)
        IN  IF g.error # ""
              THEN /\ Write(read)
                   /\ history' = Noted(c0, history)
                   /\ last' = Overtaken(
                          Request("create_permission_request", access_token, 0, name,
                                  CanManagePermissions, a.users, g, "", 201, FALSE),
                          <<c0>>, read)
              ELSE \E c \in Meanwhile(Concurrent({u.id : u \in g.users},
                                                 CanManagePermissions, read), read) :
                     LET later == Land(c, read)
                         body == PermissionRepository_create(name, later.permissions)
                     IN  /\ Write([later EXCEPT !.permissions = body.permissions])
                         /\ history' = Noted(c, Noted(c0, history))
                         /\ last' = Overtaken(
                                Request("create_permission_request", access_token, 0,
                                        name, CanManagePermissions, a.users, g,
                                        body.error, 201, TRUE), <<c0, c>>, read)
    /\ UNCHANGED <<sessions, now, nextId, held, config>>

(* permission/router.py assign_permission_to_user: c0 is committed between *)
(* the two awaits of the guard, c1 between the guard and the body, c2      *)
(* between the two SELECTs of session.get in assign_to_user (the user,     *)
(* then the permissions it holds), c3 between the lookups and the commit.  *)
AssignPermissionRequest ==
    /\ last = Idle
    /\ \E access_token \in GuardTokens, user_id \in 1..MaxUsers,
          permission_name \in ManagedNames :
       \E c0 \in InGuard(CanManagePermissions, access_token) :
        LET read == Land(c0, Database)
            a == authenticated_user(access_token, users, now)
            g == Depends_PermissionChecker(CanManagePermissions, access_token, users,
                                           read.user_permissions, now)
        IN  IF g.error # ""
              THEN /\ Write(read)
                   /\ history' = Noted(c0, history)
                   /\ last' = Overtaken(
                          Request("assign_request", access_token, user_id,
                                  permission_name, CanManagePermissions, a.users, g, "",
                                  204, FALSE), <<c0>>, read)
              ELSE \E c1 \in Meanwhile(Concurrent({u.id : u \in g.users},
                                                  CanManagePermissions, read), read) :
                   \E c2 \in Meanwhile(Concurrent({user_id}, {permission_name},
                                                  Land(c1, read)), Land(c1, read)) :
                   \E c3 \in Meanwhile(Concurrent({user_id}, {permission_name},
                                                  Land(c2, Land(c1, read))),
                                       Land(c2, Land(c1, read))) :
                     LET found == Land(c1, read)
                         loaded == Land(c2, found)
                         body == assign_to_user(user_id, permission_name, found.users,
                                     loaded.permissions, loaded.user_permissions,
                                     Land(c3, loaded))
                         noted == Noted(c3, Noted(c2, Noted(c1, Noted(c0, history))))
                     IN  /\ Write([Land(c3, loaded) EXCEPT
                                       !.user_permissions = body.user_permissions])
                         /\ history' = IF body.committed
                                          THEN ChangedIn(noted, "assign", user_id,
                                                         permission_name)
                                          ELSE noted
                         /\ last' = Overtaken(
                                Request("assign_request", access_token, user_id,
                                        permission_name, CanManagePermissions, a.users,
                                        g, body.error, 204, TRUE),
                                <<c0, c1, c2, c3>>, read)
    /\ UNCHANGED <<sessions, now, nextId, held, config>>

(* permission/router.py revoke_permission_from_user, with the same awaits *)
RevokePermissionRequest ==
    /\ last = Idle
    /\ \E access_token \in GuardTokens, user_id \in 1..MaxUsers,
          permission_name \in ManagedNames :
       \E c0 \in InGuard(CanManagePermissions, access_token) :
        LET read == Land(c0, Database)
            a == authenticated_user(access_token, users, now)
            g == Depends_PermissionChecker(CanManagePermissions, access_token, users,
                                           read.user_permissions, now)
        IN  IF g.error # ""
              THEN /\ Write(read)
                   /\ history' = Noted(c0, history)
                   /\ last' = Overtaken(
                          Request("revoke_request", access_token, user_id,
                                  permission_name, CanManagePermissions, a.users, g, "",
                                  204, FALSE), <<c0>>, read)
              ELSE \E c1 \in Meanwhile(Concurrent({u.id : u \in g.users},
                                                  CanManagePermissions, read), read) :
                   \E c2 \in Meanwhile(Concurrent({user_id}, {permission_name},
                                                  Land(c1, read)), Land(c1, read)) :
                   \E c3 \in Meanwhile(Concurrent({user_id}, {permission_name},
                                                  Land(c2, Land(c1, read))),
                                       Land(c2, Land(c1, read))),
                      unmatched \in Unmatched :
                     LET found == Land(c1, read)
                         loaded == Land(c2, found)
                         body == revoke_from_user(user_id, permission_name, found.users,
                                     loaded.permissions, loaded.user_permissions,
                                     Land(c3, loaded), unmatched)
                         noted == Noted(c3, Noted(c2, Noted(c1, Noted(c0, history))))
                     IN  /\ Write([Land(c3, loaded) EXCEPT
                                       !.user_permissions = body.user_permissions])
                         /\ history' = IF body.committed
                                          THEN ChangedIn(noted, "revoke", user_id,
                                                         permission_name)
                                          ELSE noted
                         /\ last' = Overtaken(
                                Request("revoke_request", access_token, user_id,
                                        permission_name, CanManagePermissions, a.users,
                                        g, body.error, 204, TRUE),
                                <<c0, c1, c2, c3>>, read)
    /\ UNCHANGED <<sessions, now, nextId, held, config>>

(* No route can be passed on an empty database: every route that assigns a *)
(* permission is itself behind CanManagePermissions.  The guarded routes   *)
(* start from a database PermissionSpec reaches: one user registered, the  *)
(* three permissions of CanManagePermissions created, and all of them or   *)
(* all but one assigned to that user.                                      *)
(* the registration of the first user *)
Manager == CHOOSE dto \in Registrations : dto.login = "ann@hub"

GuardSeeds == {CanManagePermissions, CanManagePermissions \ {"permission:revoke"}}

GuardInit ==
    /\ now = 0
    /\ users = (1 :> UserModel(Manager))
    /\ nextId = 2
    /\ permissions = SetToBag(CanManagePermissions)
    /\ \E seed \in GuardSeeds : user_permissions = {<<1, p>> : p \in seed}
    /\ emojis = {}
    /\ held = {}
    /\ sessions = NoSessions
    /\ history = NoHistory
    /\ config = [access_token_lifetime |-> 1, refresh_token_lifetime |-> 1, tz |-> UTC,
                 AuthUser |-> Unbound]
    /\ last = Idle

GuardNext ==
    \/ Tick
    \/ Return
    \/ Registration
    \/ DeleteUser
    \/ Login
    \/ CreateEmojiRequest
    \/ CreatePermissionRequest
    \/ AssignPermissionRequest
    \/ RevokePermissionRequest

GuardSpec == GuardInit /\ [][GuardNext]_vars

----------------------------------------------------------------------------
(* Vocabulary of the properties *)

(* the token's signature verifies under the configured key and algorithm *)
Verifies(t) ==
    /\ t.wellformed
    /\ t.header.alg = algorithm
    /\ t.signature = sign(t.header, t.payload, secret_key, algorithm)

(* correctly signed and not expired when the call decoded it *)
ValidAt(t, at) == Verifies(t) /\ t.payload.iat <= at /\ at < t.payload.exp

Called(op) == last.op = op

(* the call in flight was given a token that was valid, of the given type *)
GivenValid(token_type) ==
    \E t \in last.token : ValidAt(t, last.at) /\ t.payload.token_type = token_type

EmbeddedUserIds(t) == {u.user_id : u \in t.payload.user}

----------------------------------------------------------------------------
(* C1: identity resolution (get_current_user) never succeeds on a          *)
(* correctly signed, unexpired token whose token_type is "refresh".        *)
(* get_current_user does not look at token_type, so this fails.            *)
C1_RefreshTokenNeverResolves ==
    (Called("get_current_user") /\ GivenValid("refresh"))
        => (last.error # "" /\ last.users = {})

(* C2: refresh given a valid, unexpired access token fails with            *)
(* InvalidToken, generates no token and returns no user record.            *)
C2_RefreshRejectsAccessToken ==
    (Called("refresh") /\ GivenValid("access"))
        => /\ last.error = "InvalidToken"
           /\ last.minted = {}
           /\ last.tokens = {}
           /\ last.users = {}

C2_Witness ==
    /\ Called("refresh")
    /\ GivenValid("access")
    /\ \E t \in last.token : EmbeddedUserIds(t) \subseteq DOMAIN users
    /\ last.error = "InvalidToken"

(* C3: refresh given a valid, unexpired refresh token of an existing user  *)
(* returns exactly one token; it is a correctly signed access token that   *)
(* embeds the id of the refresh token's user; no refresh token is returned.*)
C3_RefreshReturnsOneAccessToken ==
    \A t \in last.token :
        (/\ Called("refresh")
         /\ ValidAt(t, last.at)
         /\ t.payload.token_type = "refresh"
         /\ EmbeddedUserIds(t) # {}
         /\ EmbeddedUserIds(t) \subseteq DOMAIN users)
        => /\ last.error = ""
           /\ Cardinality(last.tokens) = 1
           /\ \A f \in last.tokens :
                /\ f[1] = "access_token"
                /\ Verifies(f[2])
                /\ f[2].payload.token_type = "access"
                /\ EmbeddedUserIds(f[2]) = EmbeddedUserIds(t)
                /\ EmbeddedUserIds(f[2]) # {}

C3_Witness ==
    /\ Called("refresh")
    /\ GivenValid("refresh")
    /\ last.error = ""
    /\ \E f \in last.tokens : f[2].payload.token_type = "access"

(* C4: decode_token given a token whose header declares an algorithm other *)
(* than the configured one ("none" included) fails with InvalidToken, as   *)
(* for a malformed token or a bad signature, and returns no payload.       *)
(* The InvalidSignatureError of _validate_token is no PyJWTError and       *)
(* leaves decode_token as it is, so this fails.                            *)
C4_AlgorithmMismatchIsInvalidToken ==
    \A t \in last.token :
        (Called("decode_token") /\ t.wellformed /\ t.header.alg # algorithm)
            => (last.error = "InvalidToken" /\ last.payload = {})

(* C5: decode_token given a signed token whose signature does not verify   *)
(* under the configured key (altered, or made with another key) fails with *)
(* InvalidToken, and it returns a payload only for tokens whose signature  *)
(* verifies under the configured key and algorithm.  A token signed with   *)
(* another key that also declares another algorithm leaves decode_token    *)
(* with the InvalidSignatureError of C4, so the first part fails.          *)
C5_BadSignatureIsInvalidToken ==
    \A t \in last.token :
        Called("decode_token")
            => /\ (/\ t.wellformed
                   /\ t.signature # <<>>
                   /\ t.signature # sign(t.header, t.payload, secret_key, algorithm))
                      => last.error = "InvalidToken"
               /\ last.payload # {} => Verifies(t)

(* C6 as stated: decode_token given any token whose exp is earlier than    *)
(* the decode time fails with TokenExpired, whatever its header algorithm  *)
(* and signature.                                                          *)
C6_ExpiredIsAlwaysTokenExpired ==
    \A t \in last.token :
        (Called("decode_token") /\ t.wellformed /\ t.payload.exp < last.at)
            => last.error = "TokenExpired"

(* C6 amended: decode_token given a token that declares the configured     *)
(* algorithm, whose signature verifies under the configured key and whose  *)
(* exp is earlier than the decode time fails with TokenExpired and returns *)
(* no payload.                                                             *)
C6_VerifiedExpiredIsTokenExpired ==
    \A t \in last.token :
        (Called("decode_token") /\ Verifies(t) /\ t.payload.exp < last.at)
            => (last.error = "TokenExpired" /\ last.payload = {})

C6_Witness ==
    /\ Called("decode_token")
    /\ \E t \in last.token : Verifies(t) /\ t.payload.exp < last.at
    /\ last.error = "TokenExpired"

(* the user a successful login or refresh issued tokens for *)
Issuee ==
    IF Called("login") THEN get_user(last.login, users)
    ELSE {_get_dto(pk, users) :
            pk \in UNION {EmbeddedUserIds(t) : t \in last.token} \cap DOMAIN users}

(* C7: the token generate_access_token made for user I decodes, at any     *)
(* time before it expires, to a payload with user_id = I.id, user_name =   *)
(* I.name, token_type "access" and exp - iat equal to the configured       *)
(* access lifetime.  exp and iat come from two readings of the clock, so   *)
(* this fails when a second boundary lies between them.                    *)
C7_AccessTokenRoundTrip ==
    \A m \in last.minted :
        m[1] = "generate_access_token"
            => \A at \in now..MaxTime :
                 at < m[2].payload.exp
                    => LET d == decode_token(m[2], at)
                       IN  /\ d.error = ""
                           /\ \A p \in d.payload :
                                /\ p.token_type = "access"
                                /\ p.user = {TokenUser(I.id, I.name) : I \in Issuee}
                                /\ p.exp - p.iat = config.access_token_lifetime

(* an access token issued with no tick between the two readings, whose    *)
(* exp - iat is not the lifetime: the offset changed under the wall clock  *)
C7_LifetimeOffByTheShift ==
    /\ Called("login")
    /\ now = last.at
    /\ \E m \in last.minted :
          /\ m[1] = "generate_access_token"
          /\ m[2].payload.exp - m[2].payload.iat # config.access_token_lifetime

(* C8: every payload generate_access_token or generate_refresh_token makes *)
(* has exp > iat and token_type "access" or "refresh", for every           *)
(* configured lifetime and every pair of clock readings.                   *)
C8_IssuedPayloadInvariant ==
    \A m \in last.minted :
        /\ m[2].payload.exp > m[2].payload.iat
        /\ m[2].payload.token_type \in {"access", "refresh"}

(* a token issued with a positive lifetime and no tick between the        *)
(* readings that has expired when it is issued                             *)
C8_IssuedExpired ==
    /\ Called("login")
    /\ now = last.at
    /\ \E m \in last.minted :
          /\ m[1] = "generate_access_token"
          /\ config.access_token_lifetime > 0
          /\ m[2].payload.exp <= m[2].payload.iat

(* C9: login returns a token pair exactly when a user with the login       *)
(* exists and the password verifies against its stored digest; it fails    *)
(* with UserNotFound when no user has the login, with InvalidCredentials   *)
(* when one has and the password does not match, and a failing login       *)
(* generates no token.                                                     *)
C9_LoginIffCredentials ==
    Called("login")
        => LET found == {pk \in DOMAIN users : users[pk].login = last.login}
               matches == \E pk \in found :
                              users[pk].password = hash_password(last.password)
           IN  /\ (last.error = "") <=> matches
               /\ last.error = ""
                    => /\ {f[1] : f \in last.tokens} = {"access_token", "refresh_token"}
                       /\ \A f \in last.tokens :
                            Verifies(f[2]) /\ EmbeddedUserIds(f[2]) = found
               /\ found = {} => last.error = "UserNotFound"
               /\ (found # {} /\ ~matches) => last.error = "InvalidCredentials"
               /\ last.error # "" => (last.minted = {} /\ last.tokens = {})

C9_Witness ==
    /\ Called("login")
    /\ \E pk \in DOMAIN users :
         /\ users[pk].login = last.login
         /\ users[pk].password # hash_password(last.password)
    /\ last.error = "InvalidCredentials"

(* C10: once a user is deleted, refresh given a refresh token issued       *)
(* earlier for that user, still correctly signed and unexpired, fails with *)
(* UserNotFound and generates no token.                                    *)
C10_DeletedUserCannotRefresh ==
    \A t \in last.token :
        (/\ Called("refresh")
         /\ ValidAt(t, last.at)
         /\ t.payload.token_type = "refresh"
         /\ EmbeddedUserIds(t) # {}
         /\ \A pk \in EmbeddedUserIds(t) : pk < nextId /\ pk \notin DOMAIN users)
        => /\ last.error = "UserNotFound"
           /\ last.minted = {}
           /\ last.tokens = {}

C10_Witness ==
    /\ Called("refresh")
    /\ \E t \in last.token :
         /\ ValidAt(t, last.at)
         /\ t.payload.token_type = "refresh"
         /\ \E pk \in EmbeddedUserIds(t) : pk < nextId /\ pk \notin DOMAIN users
    /\ last.error = "UserNotFound"

(* C11: a successful get_current_user returns the record the user store    *)
(* holds, at the time of the call, for the id embedded in the token: after *)
(* a change of the user's name it is the record with the new name, not the *)
(* name the token embeds.                                                  *)
C11_ResolvesToStoreRecord ==
    (Called("get_current_user") /\ last.error = "")
        => \E t \in last.token : \E pk \in EmbeddedUserIds(t) :
               /\ pk \in DOMAIN users
               /\ last.users = {_get_dto(pk, users)}

C11_Witness ==
    /\ Called("get_current_user")
    /\ last.error = ""
    /\ \E t \in last.token : \E u \in t.payload.user :
         /\ u.user_id \in DOMAIN users
         /\ u.user_name # users[u.user_id].name
         /\ \E dto \in last.users : dto.name = users[u.user_id].name

(* C12: get_current_user given a correctly signed, unexpired token whose   *)
(* payload has no user fails with InvalidToken, returns no record and      *)
(* makes no query to the user store.                                       *)
C12_NoUserDataIsInvalidToken ==
    \A t \in last.token :
        (Called("get_current_user") /\ ValidAt(t, last.at) /\ t.payload.user = {})
            => /\ last.error = "InvalidToken"
               /\ last.users = {}
               /\ last.queries = {}

C12_Witness ==
    /\ Called("get_current_user")
    /\ \E t \in last.token : ValidAt(t, last.at) /\ t.payload.user = {}
    /\ last.error = "InvalidToken"
    /\ last.queries = {}

(* the token_type each operation is meant to accept *)
ExpectedType(op) == IF op = "refresh" THEN "refresh" ELSE "access"

(* the token is one the operation must refuse: not decodable at the time   *)
(* of the call (malformed, algorithm mismatch, bad signature, expired), of *)
(* the wrong type, or without user data                                    *)
Refusable(t, op, at) ==
    \/ ~ValidAt(t, at)
    \/ t.payload.token_type # ExpectedType(op)
    \/ t.payload.user = {}

(* C13: refresh and get_current_user given a token they must refuse raise  *)
(* InvalidToken or TokenExpired, never another error and never a result.   *)
C13_TokenFailuresAreTyped ==
    \A t \in last.token :
        ((Called("refresh") \/ Called("get_current_user"))
            /\ Refusable(t, last.op, last.at))
            => last.error \in {"InvalidToken", "TokenExpired"}

(* the permission names the user holds in the table, read off its rows *)
HeldBy(user_id, rows) == {p \in PermissionNames : <<user_id, p>> \in rows}

(* the call in flight names a user and a permission that both exist *)
OnExisting == last.user_id \in DOMAIN users /\ BagIn(last.permission, permissions)

(* C14: a permission check with an empty required set passes, whatever the *)
(* user id and the contents of the permission store, and queries nothing.  *)
C14_EmptyRequiredPasses ==
    (Called("check_user_permissions") /\ last.required = {})
        => last.passed /\ last.queries = {}

C14_Witness ==
    /\ Called("check_user_permissions")
    /\ last.required = {}
    /\ last.user_id \notin DOMAIN users
    /\ user_permissions # {}
    /\ last.passed
    /\ last.queries = {}

(* C15: a permission check with a non-empty required set passes exactly    *)
(* when every required name is among the names assigned to the user: one   *)
(* missing name denies, names held beyond the required ones do not.        *)
C15_PassesIffSubset ==
    (Called("check_user_permissions") /\ last.required # {})
        => (last.passed <=> last.required \subseteq HeldBy(last.user_id, user_permissions))

C15_Witness ==
    /\ Called("check_user_permissions")
    /\ last.required # {}
    /\ last.passed
    /\ HeldBy(last.user_id, user_permissions) \ last.required # {}

(* C18: assign of a permission the user already holds, the user existing   *)
(* when the call looks it up and the permission among those the call loads *)
(* for it, returns without error and commits nothing: the rows are as they *)
(* were after the first assign, unless another call has committed          *)
(* meanwhile.                                                              *)
C18_AssignIsIdempotent ==
    (/\ Called("assign")
     /\ last.user_id \in DOMAIN last.before.users
     /\ <<last.user_id, last.permission>> \in last.checked)
        => /\ last.error = ""
           /\ ~last.committed
           /\ Undisturbed => user_permissions = last.before.user_permissions

C18_Witness ==
    /\ Called("assign")
    /\ Undisturbed
    /\ OnExisting
    /\ <<last.user_id, last.permission>> \in last.before.user_permissions
    /\ last.error = ""
    /\ ~last.committed
    /\ HeldBy(last.user_id, user_permissions) = HeldBy(last.user_id, last.before.user_permissions)

(* C19: revoke of a permission the user does not hold, user and permission *)
(* existing when the call looks them up and the permission not among those *)
(* the call loads for the user, returns without error and commits nothing: *)
(* the rows of every user are as they were, unless another call has        *)
(* committed meanwhile.                                                    *)
C19_RevokeOfNotHeldIsNoOp ==
    (/\ Called("revoke")
     /\ last.user_id \in DOMAIN last.before.users
     /\ BagIn(last.permission, last.before.permissions)
     /\ <<last.user_id, last.permission>> \notin last.checked)
        => /\ last.error = ""
           /\ ~last.committed
           /\ Undisturbed
                  => \A pk \in 1..MaxUsers :
                        HeldBy(pk, user_permissions)
                            = HeldBy(pk, last.before.user_permissions)

C19_Witness ==
    /\ Called("revoke")
    /\ Undisturbed
    /\ OnExisting
    /\ <<last.user_id, last.permission>> \notin last.before.user_permissions
    /\ HeldBy(last.user_id, last.before.user_permissions) # {}
    /\ \E pk \in DOMAIN users : pk # last.user_id /\ HeldBy(pk, last.before.user_permissions) # {}
    /\ last.error = ""
    /\ user_permissions = last.before.user_permissions

(* the request in flight is one to a guarded route *)
GuardedRoutes ==
    {"create_emoji", "create_permission_request", "assign_request", "revoke_request"}

Guarded == last.op \in GuardedRoutes

(* C16: the body of a route behind PermissionChecker(R) runs only when the *)
(* user the request resolved held every permission of R when the check     *)
(* read them; when that user lacks one then, the response is 403, the body *)
(* does not run and the request writes no table: the tables are those the  *)
(* commits of other requests left.                                         *)
C16_GatedBodyNeedsPermissions ==
    Guarded =>
        /\ last.ran =>
             \E u \in last.users :
                 last.required \subseteq HeldBy(u.id, last.checked)
        /\ \A u \in last.users :
             ~(last.required \subseteq HeldBy(u.id, last.checked))
                 => /\ last.status = 403
                    /\ ~last.ran
                    /\ Snapshot = LandAll(last.meanwhile, last.before)

C16_Witness ==
    /\ Called("create_emoji")
    /\ \E u \in last.users :
         /\ HeldBy(u.id, last.checked) # {}
         /\ ~(last.required \subseteq HeldBy(u.id, last.checked))
    /\ last.status = 403
    /\ ~last.ran
    /\ emojis = last.before.emojis

(* C17: a guarded request whose access token is missing, invalid or        *)
(* expired ends with 401 and makes no query to the permission store.       *)
C17_BadTokenIs401BeforeAnyCheck ==
    (Guarded /\ (last.token = NoToken
                 \/ \E t \in last.token : Refusable(t, last.op, last.at)))
        => /\ last.status = 401
           /\ "PermissionRepository.get_user_permissions" \notin last.queries

(* C20: assign and revoke reached with a user id or a permission name that *)
(* does not exist fail with UserNotFound, or PermissionNotFound when the   *)
(* user exists, the route answers 404, and no row of user_permissions      *)
(* changes; no other request committing while they run.                    *)
C20_UnknownIsNotFound ==
    (/\ last.op \in {"assign", "revoke", "assign_request", "revoke_request"}
     /\ Undisturbed
     /\ Guarded => last.ran
     /\ ~OnExisting)
        => /\ last.error = IF last.user_id \notin DOMAIN users
                               THEN "UserNotFound" ELSE "PermissionNotFound"
           /\ Guarded => last.status = 404
           /\ user_permissions = last.before.user_permissions

C20_Witness ==
    /\ Called("assign_request")
    /\ Undisturbed
    /\ last.ran
    /\ last.user_id \notin DOMAIN users
    /\ BagIn(last.permission, permissions)
    /\ last.error = "UserNotFound"
    /\ last.status = 404
    /\ user_permissions = last.before.user_permissions

(* C24: no two rows of permissions share a name; a create reached with a   *)
(* name the table already has fails with PermissionAlreadyExists, the      *)
(* route answers 409, and the table is as it was.                          *)
C24_PermissionNamesAreUnique ==
    /\ \A name \in BagToSet(permissions) : CopiesIn(name, permissions) = 1
    /\ (/\ last.op \in {"create_permission", "create_permission_request"}
        /\ Guarded => last.ran
        /\ BagIn(last.permission, last.before.permissions))
           => /\ last.error = "PermissionAlreadyExists"
              /\ Guarded => last.status = 409
              /\ permissions = last.before.permissions

C24_Witness ==
    /\ Called("create_permission_request")
    /\ last.ran
    /\ BagIn(last.permission, last.before.permissions)
    /\ last.error = "PermissionAlreadyExists"
    /\ last.status = 409
    /\ permissions = last.before.permissions
    /\ CopiesIn(last.permission, permissions) = 1

----------------------------------------------------------------------------
(* Two assign / revoke requests running concurrently.  Every request has a *)
(* session of its own; assign_to_user and revoke_from_user await three     *)
(* times, and the other request can run between any two of the awaits.     *)

SessionVars == <<now, users, nextId, held, config, last, permissions, emojis, history>>

Session(w) == sessions.of[w]

Finish(w, error) == [sessions EXCEPT !.of[w].pc = "done", !.of[w].error = error]

(* session.get(UserModel, user_id, options=[selectinload(permissions)]):   *)
(* the user and the permissions it holds now are loaded into the session   *)
SessionGet(w) ==
    \E op \in {"assign", "revoke"}, user_id \in 1..MaxUsers,
       permission_name \in {"emoji:create", "permission:create"} :
        LET begun == [sessions EXCEPT
                         !.base = IF \A v \in Workers : Session(v).pc = "idle"
                                    THEN user_permissions ELSE @,
                         !.of[w] = [pc |-> "loaded", op |-> op, user_id |-> user_id,
                                    permission |-> permission_name,
                                    loaded |-> get_user_permissions(user_id,
                                                                    user_permissions),
                                    error |-> ""]]
        IN  /\ Session(w).pc = "idle"
            /\ sessions' = IF user_id \notin DOMAIN users
                             THEN [begun EXCEPT !.of[w].pc = "done",
                                                !.of[w].error = "UserNotFound"]
                             ELSE begun
            /\ UNCHANGED <<SessionVars, user_permissions>>

(* permission = await self.get_by_name(permission_name) *)
GetByName(w) ==
    /\ Session(w).pc = "loaded"
    /\ sessions' = IF get_by_name(Session(w).permission, permissions) = {}
                     THEN Finish(w, "PermissionNotFound")
                     ELSE [sessions EXCEPT !.of[w].pc = "found"]
    /\ UNCHANGED <<SessionVars, user_permissions>>

(* The membership test on the permissions the session loaded, then the     *)
(* commit.  The INSERT of a row another session committed meanwhile breaks *)
(* the primary key (user_id, permission_id): IntegrityError.  The DELETE   *)
(* of a row another session removed meanwhile matches no row, which the    *)
(* unit of work reports as StaleDataError when the driver counts the rows  *)
(* matched and passes over when it does not.                               *)
SessionCommit(w) ==
    LET s == Session(w)
        row == <<s.user_id, s.permission>>
    IN  /\ s.pc = "found"
        /\ IF s.op = "assign"
             THEN IF s.permission \in s.loaded
                    THEN /\ sessions' = Finish(w, "")
                         /\ UNCHANGED user_permissions
                    ELSE IF row \in user_permissions
                           THEN /\ sessions' = Finish(w, "IntegrityError")
                                /\ UNCHANGED user_permissions
                           ELSE /\ sessions' = Finish(w, "")
                                /\ user_permissions' = user_permissions \cup {row}
             ELSE IF s.permission \notin s.loaded
                    THEN /\ sessions' = Finish(w, "")
                         /\ UNCHANGED user_permissions
                    ELSE IF row \in user_permissions
                           THEN /\ sessions' = Finish(w, "")
                                /\ user_permissions' = user_permissions \ {row}
                           ELSE /\ \E error \in {"", "StaleDataError"} :
                                       sessions' = Finish(w, error)
                                /\ UNCHANGED user_permissions
        /\ UNCHANGED SessionVars

(* both responses are sent and the sessions closed *)
SessionClose ==
    /\ \A w \in Workers : Session(w).pc = "done"
    /\ sessions' = NoSessions
    /\ UNCHANGED <<SessionVars, user_permissions>>

ConcurrentInit ==
    /\ now = 0
    /\ users = (1 :> UserModel(Manager))
    /\ nextId = 2
    /\ permissions = SetToBag({"emoji:create"})
    /\ user_permissions = {}
    /\ emojis = {}
    /\ held = {}
    /\ sessions = NoSessions
    /\ history = NoHistory
    /\ config = [access_token_lifetime |-> 1, refresh_token_lifetime |-> 1, tz |-> UTC,
                 AuthUser |-> Unbound]
    /\ last = Idle

ConcurrentNext ==
    \/ \E w \in Workers : SessionGet(w)
    \/ \E w \in Workers : GetByName(w)
    \/ \E w \in Workers : SessionCommit(w)
    \/ SessionClose

ConcurrentSpec == ConcurrentInit /\ [][ConcurrentNext]_vars

(* the request of a session run alone on the rows given *)
Alone(s, rows) ==
    IF s.op = "assign"
        THEN assign_to_user(s.user_id, s.permission, users, permissions, rows,
                            Tables(users, permissions, rows, emojis))
        ELSE revoke_from_user(s.user_id, s.permission, users, permissions, rows,
                              Tables(users, permissions, rows, emojis), "")

(* both requests are answered and were about one (user, permission) pair *)
BothAnswered ==
    /\ \A w \in Workers : Session(w).pc = "done"
    /\ \A v, w \in Workers : /\ Session(v).user_id = Session(w).user_id
                             /\ Session(v).permission = Session(w).permission

(* the outcome is that of the two requests run one after the other, the    *)
(* request of session v first                                              *)
SerialFrom(v) ==
    \E w \in Workers \ {v} :
        LET first == Alone(Session(v), sessions.base)
            second == Alone(Session(w), first.user_permissions)
        IN  /\ Session(v).error = first.error
            /\ Session(w).error = second.error
            /\ user_permissions = second.user_permissions

(* C21: whenever two concurrent assign / revoke requests on one (user,     *)
(* permission) pair are both answered, the rows of user_permissions and    *)
(* the two outcomes are those of the two requests run in some serial order *)
(* from the rows the first of them found; two concurrent assigns of a      *)
(* permission not held both return without error.                          *)
C21_ConcurrentRequestsSerialize ==
    BothAnswered => \E v \in Workers : SerialFrom(v)

(* two assigns of a permission the user did not hold, both answered *)
C21_TwoAssignsAnswered ==
    /\ BothAnswered
    /\ \A w \in Workers : /\ Session(w).op = "assign"
                          /\ Session(w).permission \notin Session(w).loaded
                          /\ Session(w).error \in {"", "IntegrityError"}
    /\ <<Session(1).user_id, Session(1).permission>> \notin sessions.base

----------------------------------------------------------------------------
(* The lookups, on a database that has users, permissions and assignments. *)
(* The task of a request can be cancelled at any await (the client went    *)
(* away): the lookup it awaited is abandoned and CancelledError is raised  *)
(* in the coroutine.                                                       *)

(* check_user_permissions abandoned at await get_user_permissions *)
CheckUserPermissionsCancelled ==
    \E user_id \in 1..MaxUsers, required \in SUBSET PermissionNames \ {{}} :
        /\ last = Idle
        /\ last' = StoreCall("check_user_permissions", user_id, "", required,
                             "CancelledError", FALSE, FALSE,
                             {"PermissionRepository.get_user_permissions"})
        /\ UNCHANGED <<sessions, history, now, users, nextId, held, config, stores>>

(* get_current_user abandoned at await user_service.get *)
GetCurrentUserCancelled ==
    \E token \in Presentable :
        /\ last = Idle
        /\ decode_token(token, now).error = ""
        /\ The(decode_token(token, now).payload).user # {}
        /\ last' = Call("get_current_user", {token}, "", "", now,
                        Queried({"UserRepository.get"}, Raise("CancelledError")), {})
        /\ UNCHANGED <<sessions, history, now, users, nextId, held, config, stores>>

ReadInit == GuardInit

ReadNext ==
    \/ Tick
    \/ Return
    \/ Registration
    \/ DeleteUser
    \/ Login
    \/ CheckUserPermissions
    \/ CheckUserPermissionsCancelled
    \/ GetCurrentUser
    \/ GetCurrentUserCancelled
    \/ DecodeToken

ReadSpec == ReadInit /\ [][ReadNext]_vars

Lookups == {"check_user_permissions", "decode_token", "get_current_user"}

(* C22: a call of check_user_permissions, decode_token or get_current_user *)
(* that passes, fails or is abandoned at its store lookup leaves the       *)
(* tables permissions, user_permissions and users as they were.            *)
C22_LookupsAreReadOnly ==
    [][(last.op = "idle" /\ last'.op \in Lookups)
          => UNCHANGED <<permissions, user_permissions, users>>]_vars

C22_Witness ==
    /\ Called("check_user_permissions")
    /\ last.error = "CancelledError"
    /\ last.required \cap get_user_permissions(last.user_id, user_permissions) # {}
    /\ last.before.user_permissions = user_permissions
    /\ last.before.permissions = permissions

(* the status the taxonomy fixes for a failure *)
FixedStatus(error) ==
    CASE error \in {"InvalidCredentials", "InvalidToken", "TokenExpired",
                    "InvalidSignatureError", "HTTP_401_UNAUTHORIZED"} -> 401
      [] error = "HTTP_403_FORBIDDEN" -> 403
      [] error \in {"PermissionAlreadyExists", "AlreadyExistError"} -> 409
      [] error \in {"UserNotFound", "PermissionNotFound"} -> 404
      [] OTHER -> 500

(* the failure the request met first: that of resolving the identity of    *)
(* the token given on the users the guard read, else the one the response  *)
(* reports                                                                 *)
Detected ==
    IF \E t \in last.token : get_current_user(t, last.before.users, last.at).error # ""
        THEN get_current_user(The(last.token), last.before.users, last.at).error
        ELSE last.error

(* C23: every failure a request meets is answered with the one status the  *)
(* taxonomy fixes for it, on every route: 401 for InvalidCredentials,      *)
(* InvalidToken and TokenExpired, 403 for a denial, 409 for a duplicate,   *)
(* 404 for UserNotFound and PermissionNotFound, 500 for anything else.     *)
C23_OneStatusPerFailure ==
    (Guarded /\ Detected # "") => last.status = FixedStatus(Detected)

(* a guarded route answers the token of a deleted user *)
C23_DeletedUserAtGuard ==
    /\ Guarded
    /\ Detected = "UserNotFound"
    /\ last.status = 401

(* the one permission the documentation of a management route names *)
Documented(op) ==
    CASE op = "create_permission_request" -> "permission:create"
      [] op = "assign_request" -> "permission:assign"
      [] op = "revoke_request" -> "permission:revoke"

ManagementRoutes == {"create_permission_request", "assign_request", "revoke_request"}

(* C27: a management route lets an authenticated user in exactly when the  *)
(* user holds the one permission the route's documentation names:          *)
(* permission:create for POST /permissions/, permission:assign for assign, *)
(* permission:revoke for revoke; the other two are not required.           *)
C27_GatedByDocumentedPermission ==
    (last.op \in ManagementRoutes /\ GivenValid("access"))
        => \A u \in last.users :
               last.ran <=> Documented(last.op) \in HeldBy(u.id, last.checked)

(* a user holding permission:assign is refused on the assign route *)
C27_AssignerRefused ==
    /\ Called("assign_request")
    /\ GivenValid("access")
    /\ \E u \in last.users :
          /\ "permission:assign" \in HeldBy(u.id, last.checked)
          /\ "permission:revoke" \notin HeldBy(u.id, last.checked)
    /\ last.status = 403
    /\ ~last.ran

(* some user that stays in the store holds other permissions after the step *)
HoldingsChange ==
    \E u \in DOMAIN users' :
        HeldBy(u, user_permissions') # HeldBy(u, user_permissions)

(* the step is an assign or revoke request that passed the guard *)
ManagedBy(token_types) ==
    /\ last'.op \in {"assign_request", "revoke_request"}
    /\ last'.passed
    /\ \E t \in last'.token : /\ ValidAt(t, last'.at)
                              /\ t.payload.token_type \in token_types

(* an assign or revoke of another request that passed the guard was       *)
(* committed while the request of the step awaited                         *)
ManagedMeanwhile ==
    \E i \in DOMAIN last'.meanwhile : last'.meanwhile[i].op \in {"assign", "revoke"}

(* the step is a guarded request refused by authentication or by the guard *)
Refused == last.op = "idle" /\ last'.op \in GuardedRoutes /\ ~last'.passed

(* C30: the permissions a user holds change only in a step that is an      *)
(* assign or revoke request whose caller presented a valid access token    *)
(* and passed the management guard, or during which the commit of another  *)
(* request that passed that guard landed; a request refused by             *)
(* authentication or by the guard writes neither user_permissions nor      *)
(* permissions: they are as the commits of other requests left them.       *)
C30_NoPrivilegeEscalation ==
    [][/\ HoldingsChange => (ManagedBy({"access"}) \/ ManagedMeanwhile)
       /\ Refused => /\ user_permissions' = LandAll(last'.meanwhile, Database).user_permissions
                     /\ permissions' = LandAll(last'.meanwhile, Database).permissions]_vars

(* an assignment made by a request that carried a refresh token *)
C30_ChangedWithRefreshToken ==
    /\ Called("assign_request")
    /\ last.passed
    /\ GivenValid("refresh")
    /\ user_permissions # last.before.user_permissions

(* the last assign or revoke request that committed for the pair was op *)
Latest(user_id, permission_name, op) ==
    <<user_id, permission_name, op>> \in history.latest

(* the change was the last one committed when the guard of the request in  *)
(* flight ran: nothing was committed on the rows of the user since         *)
LatestAtGuard(user_id, permission_name, op) ==
    /\ Latest(user_id, permission_name, op)
    /\ \A i \in DOMAIN last.meanwhile : last.meanwhile[i].user_id # user_id

(* C29: a guard check for user u on a required set holding a permission p  *)
(* whose revoke from u was the last change committed for (u, p) is denied, *)
(* and a check on permissions u holds, one of them by an assign committed  *)
(* last for it, passes: whatever token resolved u, also one the client was *)
(* given before the change.                                                *)
C29_ChangesApplyToNextRequest ==
    Guarded =>
        \A u \in last.users :
            /\ (\E p \in last.required : LatestAtGuard(u.id, p, "revoke"))
                   => (~last.passed /\ last.status = 403 /\ ~last.ran)
            /\ (/\ \E p \in last.required : LatestAtGuard(u.id, p, "assign")
                /\ last.required \subseteq HeldBy(u.id, last.checked))
                   => (last.passed /\ last.ran)

(* a request refused for a permission revoked after its token was issued *)
C29_Witness ==
    /\ Called("create_emoji")
    /\ GivenValid("access")
    /\ last.token \subseteq history.aged
    /\ \E u \in last.users : \E p \in last.required : Latest(u.id, p, "revoke")
    /\ last.status = 403
    /\ ~last.ran

(* the step is a call of refresh *)
Refreshing == last.op = "idle" /\ last'.op = "refresh"

(* C28: refresh keeps no record of the tokens it accepted: a call leaves    *)
(* the user store, the configuration and the tables as they were, and a    *)
(* call given a valid, unexpired refresh token of an existing user         *)
(* succeeds with a new access token whether or not refresh had accepted    *)
(* that token before; the client still holds the refresh token after it.   *)
C28_RefreshTokenIsReusable ==
    [][Refreshing =>
          /\ UNCHANGED <<users, nextId, config, permissions, user_permissions, emojis>>
          /\ \A t \in last'.token :
                (/\ ValidAt(t, last'.at)
                 /\ t.payload.token_type = "refresh"
                 /\ EmbeddedUserIds(t) # {}
                 /\ EmbeddedUserIds(t) \subseteq DOMAIN users)
                => /\ last'.error = ""
                   /\ \E f \in last'.tokens : /\ f[1] = "access_token"
                                              /\ f[2] \in TokensOf(held')
                   /\ t \in history'.used
                   /\ t \in TokensOf(held) => t \in TokensOf(held')]_vars

(* refresh succeeds again with a token it had accepted before *)
C28_Witness ==
    /\ Called("refresh")
    /\ last.reused
    /\ GivenValid("refresh")
    /\ last.error = ""
    /\ \E f \in last.tokens : f[2].payload.token_type = "access"
    /\ last.token \subseteq TokensOf(held)

----------------------------------------------------------------------------
(* The routes of auth/router.py that take tokens.  Both declare the        *)
(* parameter user: AuthUser, the dependency authenticated_user of          *)
(* protection.py, which reads the access-token header; the body reads its  *)
(* own header.  FastAPI resolves the dependency before the body runs, and  *)
(* what the body raises is answered by the handlers of handlers.py.        *)



(* the request of a route of a module that did not import: no response *)
NotServed(op, access_token) ==
    [Request(op, access_token, 0, "", {}, {}, Raise(Unbound), "", 0, FALSE)
        EXCEPT !.status = 0]

(* auth/router.py get_current_user: POST /auth/me.  The dependency        *)
(* AuthUser decodes the token and selects the user; the body decodes the   *)
(* token again, at a later reading t of the clock, and selects the user on *)
(* the table users as it is by then.                                       *)
MeRequest ==
    /\ last = Idle
    /\ \E access_token \in GuardTokens :
        LET a == authenticated_user(access_token, users, now)
        IN  IF config.AuthUser = Unbound
              THEN /\ last' = NotServed("me", access_token)
                   /\ UNCHANGED <<now, users, stores, history>>
            ELSE IF a.error # ""
              THEN /\ UNCHANGED <<now, users, stores, history>>
                   /\ last' = Request("me", access_token, 0, "", {}, {}, a, "", 200,
                                      FALSE)
            ELSE \E c \in Meanwhile(Concurrent({u.id : u \in a.users}, {}, Database),
                                    Database),
                    t \in {now, now + 1} :
                   LET body == get_current_user(The(access_token),
                                                Land(c, Database).users, t)
                   IN  /\ t <= MaxTime
                       /\ now' = t
                       /\ Write(Land(c, Database))
                       /\ history' = Noted(c, history)
                       /\ last' = Overtaken(
                              Request("me", access_token, 0, "", {}, body.users, a,
                                      body.error, 200, TRUE), <<c>>, NoSnapshot)
    /\ UNCHANGED <<sessions, nextId, held, config>>

(* the token headers POST /auth/refresh is sent with: none, or a token *)
RefreshHeaders == {NoToken} \cup {{t} : t \in HeldTokens \cup {Malformed}}

(* RefreshTokenDTO(refresh_token=token): the field is a str, and the None  *)
(* of an absent header is refused with pydantic's ValidationError          *)
RefreshTokenDTO(token) == IF token = NoToken THEN "ValidationError" ELSE ""

(* the response of POST /auth/refresh *)
RefreshResponse(access_token, token, a, body, ran) ==
    [Request("refresh_request", access_token, 0, "", {}, {}, a, body.error, 200, ran)
        EXCEPT !.refresh_token = token, !.tokens = body.tokens,
               !.minted = body.minted, !.queries = a.queries \cup body.queries,
               !.reused = token \subseteq history.used /\ token # NoToken]

(* auth/router.py refresh_token: POST /auth/refresh.  The dependency      *)
(* AuthUser resolves the access token; the body decodes the refresh token  *)
(* at a later reading t of the clock and looks up its user on the table    *)
(* users as it is by then; the readings r of the issuance follow.          *)
RefreshRequest ==
    /\ last = Idle
    /\ UNCHANGED sessions
    /\ \E access_token \in GuardTokens, token \in RefreshHeaders :
        LET a == authenticated_user(access_token, users, now)
        IN  IF config.AuthUser = Unbound
              THEN /\ last' = [NotServed("refresh_request", access_token)
                                  EXCEPT !.refresh_token = token]
                   /\ UNCHANGED <<now, users, nextId, held, config, history, stores>>
            ELSE IF a.error # ""
              THEN /\ last' = RefreshResponse(access_token, token, a, Raise(""), FALSE)
                   /\ UNCHANGED <<now, users, nextId, held, config, history, stores>>
            ELSE IF RefreshTokenDTO(token) # ""
              THEN /\ last' = RefreshResponse(access_token, token, a,
                                  Raise(RefreshTokenDTO(token)), TRUE)
                   /\ UNCHANGED <<now, users, nextId, held, config, history, stores>>
            ELSE \E c \in Meanwhile(Concurrent({u.id : u \in a.users}
                                                 \cup EmbeddedUserIds(The(token)),
                                               {}, Database), Database),
                    t \in {now, now + 1} :
                 LET later == Land(c, Database)
                 IN  /\ Write(later)
                     /\ IF refresh(The(token), later.users, t, NoReadings).error # ""
                          THEN /\ t <= MaxTime
                               /\ now' = t
                               /\ last' = Overtaken(
                                      RefreshResponse(access_token, token, a,
                                          refresh(The(token), later.users, t,
                                                  NoReadings), TRUE), <<c>>, NoSnapshot)
                               /\ history' = Noted(c, history)
                               /\ UNCHANGED <<nextId, held, config>>
                          ELSE \E r \in Readings(now) :
                               /\ t <= r[1]
                               /\ r[4] <= MaxTime
                               /\ now' = r[4]
                               /\ held' = Keep(held, refresh(The(token), later.users,
                                                             t, r).tokens)
                               /\ history' =
                                     [Used(The(token),
                                           Keep(held, refresh(The(token), later.users,
                                                              t, r).tokens))
                                         EXCEPT !.latest = Noted(c, history).latest]
                               /\ last' = Overtaken(
                                      RefreshResponse(access_token, token, a,
                                          refresh(The(token), later.users, t, r),
                                          TRUE), <<c>>, NoSnapshot)
                               /\ UNCHANGED <<nextId, config>>

(* the permission the guard of POST /auth/register requires *)
CanCreateUsers == {"user:create"}

(* auth/router.py register: POST /auth/register behind PermissionChecker   *)
(* of {"user:create"}.  c0 is committed between the two awaits of the      *)
(* guard.  The body is AuthService.registration: what another request      *)
(* commits after the guard (c1) is in the tables the body finds, and what  *)
(* one commits on the new row after its INSERT (c2) is what                *)
(* session.refresh reads back.                                             *)
RegisterRequest ==
    /\ last = Idle
    /\ \E access_token \in GuardTokens, dto \in Registrations :
       \E c0 \in InGuard(CanCreateUsers, access_token) :
        LET read == Land(c0, Database)
            a == authenticated_user(access_token, users, now)
            g == Depends_PermissionChecker(CanCreateUsers, access_token, users,
                                           read.user_permissions, now)
        IN  IF config.AuthUser = Unbound
              THEN /\ last' = NotServed("register", access_token)
                   /\ UNCHANGED <<users, stores, history, nextId>>
            ELSE IF g.error # ""
              THEN /\ Write(read)
                   /\ history' = Noted(c0, history)
                   /\ UNCHANGED nextId
                   /\ last' = Overtaken(
                          Request("register", access_token, 0, "", CanCreateUsers,
                                  a.users, g, "", 201, FALSE), <<c0>>, read)
            ELSE \E c1 \in Meanwhile(Concurrent({u.id : u \in g.users}, CanCreateUsers,
                                                read), read) :
                   LET later == Land(c1, read)
                       created == [later EXCEPT
                                      !.users = (nextId :> UserModel(dto)) @@ @]
                   IN  /\ nextId <= MaxUsers
                       /\ nextId' = nextId + 1
                       /\ IF \E pk \in DOMAIN later.users :
                                  later.users[pk].login = dto.login
                            THEN /\ Write(later)
                                 /\ history' = Noted(c1, Noted(c0, history))
                                 /\ last' = Overtaken(
                                        Request("register", access_token, 0, "",
                                                CanCreateUsers, {}, g,
                                                "AlreadyExistError", 201, TRUE),
                                        <<c0, c1>>, read)
                            ELSE \E c2 \in Meanwhile(OnUser({"delete"}, nextId),
                                                     created) :
                                   LET refreshed == Land(c2, created)
                                       found == nextId \in DOMAIN refreshed.users
                                   IN  /\ Write(refreshed)
                                       /\ history' =
                                              Noted(c2, Noted(c1, Noted(c0, history)))
                                       /\ last' = Overtaken(
                                              Request("register", access_token, 0, "",
                                                  CanCreateUsers,
                                                  IF found
                                                      THEN {_get_dto(nextId,
                                                                refreshed.users)}
                                                      ELSE {},
                                                  g,
                                                  IF found THEN ""
                                                      ELSE "InvalidRequestError",
                                                  201, TRUE),
                                              <<c0, c1, c2>>, read)
    /\ UNCHANGED <<sessions, now, held, config>>

(* one user is registered and may register others; the refresh token       *)
(* outlives the access token                                               *)
RouteInit ==
    /\ now = 0
    /\ users = (1 :> UserModel(Manager))
    /\ nextId = 2
    /\ permissions = SetToBag(CanCreateUsers)
    /\ user_permissions = {<<1, name>> : name \in CanCreateUsers}
    /\ emojis = {}
    /\ held = {}
    /\ sessions = NoSessions
    /\ history = NoHistory
    /\ \E bound \in AuthUserBindings :
          config = [access_token_lifetime |-> 1, refresh_token_lifetime |-> MaxLifetime,
                    tz |-> UTC, AuthUser |-> bound]
    /\ last = Idle

RouteNext ==
    \/ Tick
    \/ Return
    \/ RegisterRequest
    \/ DeleteUser
    \/ Login
    \/ MeRequest
    \/ RefreshRequest

RouteSpec == RouteInit /\ [][RouteNext]_vars

(* the token header of the refresh request in flight holds a valid,        *)
(* unexpired refresh token of an existing user                             *)
GivenValidRefreshToken ==
    \E t \in last.refresh_token :
        /\ ValidAt(t, last.at)
        /\ t.payload.token_type = "refresh"
        /\ EmbeddedUserIds(t) # {}
        /\ EmbeddedUserIds(t) \subseteq DOMAIN users

(* C25: POST /auth/refresh with a valid, unexpired refresh token of an     *)
(* existing user in the token header answers 200 with a new access token,  *)
(* whatever the access-token header holds: a valid access token, an        *)
(* expired one, or none.                                                   *)
C25_RefreshNeedsNoAccessToken ==
    (Called("refresh_request") /\ GivenValidRefreshToken)
        => /\ last.status = 200
           /\ \E f \in last.tokens : /\ f[1] = "access_token"
                                     /\ f[2].payload.token_type = "access"

(* the refresh request of a client whose access token has expired *)
C25_ExpiredAccessTokenRefused ==
    /\ Called("refresh_request")
    /\ GivenValidRefreshToken
    /\ \E t \in last.token : /\ Verifies(t)
                             /\ t.payload.token_type = "access"
                             /\ t.payload.exp <= last.at
    /\ last.status = 401
    /\ last.tokens = {}

(* C26: POST /auth/me with an access token login returned, sent before it  *)
(* expires and while its user exists, answers 200 with the record the user *)
(* store has for that user; with a token that is expired or does not       *)
(* verify it answers 401 and no user record. The token counts as sent      *)
(* before it expires when it is valid at both readings of the clock the    *)
(* request makes, the guard's and the body's.                              *)
C26_MeReturnsTheLoggedInUser ==
    Called("me") =>
        \A t \in last.token :
            /\ (/\ t \in TokensOf(held)
                /\ ValidAt(t, last.at)
                /\ ValidAt(t, now)
                /\ t.payload.token_type = "access"
                /\ EmbeddedUserIds(t) \subseteq DOMAIN users)
                   => /\ last.status = 200
                      /\ last.users = {_get_dto(pk, users) : pk \in EmbeddedUserIds(t)}
                      /\ last.users # {}
            /\ ~ValidAt(t, last.at) => (last.status = 401 /\ last.users = {})

(* the module of the auth routes does not import: the request is not served *)
C26_NotServed ==
    /\ Called("me")
    /\ last.error = Unbound
    /\ last.status = 0

C26_Witness ==
    /\ Called("me")
    /\ GivenValid("access")
    /\ last.token \subseteq TokensOf(held)
    /\ last.status = 200
    /\ \E u \in last.users : u.id \in DOMAIN users /\ u.login \in Logins

====
